---- MODULE Spec2Model ----
(***************************************************************************)
(* Model of the lit-demo image viewer core:                                *)
(*   - ViewportServiceImpl (services/viewport-service.js): fit, zoom, pan, *)
(*     clamp and the screen/image coordinate maps;                         *)
(*   - ImageServiceImpl (services/image-service.js): the load pipeline,    *)
(*     the hard-limit and downscale policies, orientation normalisation,   *)
(*     and the EXIF orientation parser read by read on byte sequences;     *)
(*   - MyElement (my-element.js): the load handlers, Lit's update cycle    *)
(*     and the animation-frame render loop that drives the viewport.       *)
(* Numbers of the viewport are exact rationals <<n, d>> in lowest terms    *)
(* with d > 0; d = 0 encodes the non-finite doubles (NaN, +/-Infinity).    *)
(***************************************************************************)
EXTENDS Integers, Sequences, FiniteSets, TLC

VARIABLES
    vp,        \* the ViewportServiceImpl object
    call,      \* the last ViewportService call: its name, arguments, number
    img,       \* the ImageServiceImpl object
    input,     \* what each load call is given
    loads,     \* each load call: where it stands and its locals
    finished,  \* the load calls that settled, in the order they settled
    norm,      \* the rasters of a chain of _normalizeOrientation passes
    parse,     \* a byte buffer and what _readExifOrientation made of it
    el         \* the MyElement custom element and the page around it

vars == <<vp, call, img, input, loads, finished, norm, parse, el>>

(***************************************************************************)
(* Rational arithmetic                                                     *)
(***************************************************************************)
Abs(n) == IF n < 0 THEN -n ELSE n

RECURSIVE Gcd(_, _)
Gcd(a, b) == IF b = 0 THEN a ELSE Gcd(b, a % b)

\* n/d in lowest terms with a positive denominator (d # 0)
Rat(n, d) ==
    LET g == Gcd(Abs(n), Abs(d))
        s == IF d < 0 THEN -1 ELSE 1
    IN  <<(s * n) \div g, (s * d) \div g>>

Q(n) == <<n, 1>>

NaN == <<0, 0>>
PosInf == <<1, 0>>
NegInf == <<-1, 0>>

isFinite(q) == q[2] # 0

RAdd(a, b) == Rat(a[1] * b[2] + b[1] * a[2], a[2] * b[2])
RSub(a, b) == Rat(a[1] * b[2] - b[1] * a[2], a[2] * b[2])
RMul(a, b) == Rat(a[1] * b[1], a[2] * b[2])
\* JS division: x/0 is +/-Infinity, 0/0 is NaN
RDiv(a, b) ==
    IF b[1] = 0
    THEN (IF a[1] = 0 THEN NaN ELSE IF a[1] > 0 THEN PosInf ELSE NegInf)
    ELSE Rat(a[1] * b[2], a[2] * b[1])
RLe(a, b) == a[1] * b[2] <= b[1] * a[2]
RLt(a, b) == a[1] * b[2] < b[1] * a[2]
RMax(a, b) == IF RLe(a, b) THEN b ELSE a
RMin(a, b) == IF RLe(a, b) THEN a ELSE b
Half(a) == Rat(a[1], 2 * a[2])

\* x | 0 : ToInt32 of a double (truncation toward zero; NaN and Infinity give 0)
ToInt32(q) ==
    IF ~isFinite(q) THEN 0
    ELSE IF q[1] >= 0 THEN q[1] \div q[2] ELSE -((-q[1]) \div q[2])

IMax(a, b) == IF a >= b THEN a ELSE b
IMin(a, b) == IF a <= b THEN a ELSE b

(***************************************************************************)
(* Bounds of the model                                                     *)
(***************************************************************************)
\* largest viewport side (CSS pixels) passed to setViewportSize
MaxView == 2
\* largest content side (image pixels) passed to setContentSize
MaxContent == 2
\* largest number of ViewportService calls in a run
MaxCalls == 5

(***************************************************************************)
(* ViewportServiceImpl                                                     *)
(***************************************************************************)
\* constructor
ViewportServiceImpl ==
    [vw |-> 0, vh |-> 0, cw |-> 1, ch |-> 1,
     scale |-> Q(1), tx |-> Q(0), ty |-> Q(0),
     minScale |-> Q(1), maxScale |-> Q(8)]

\* clampAxis without its upper clamp (the `> maxTx` test dropped)
clampAxisNoUpper(t, content, scale, view) ==
    LET scaled == RMul(Q(content), scale)
        minT   == RSub(Q(view), scaled)
    IN  IF RLe(scaled, Q(view))
        THEN Half(RSub(Q(view), scaled))
        ELSE IF RLt(t, minT) THEN minT ELSE t

\* one axis of clampPan: the translate after clamping
clampAxis(t, content, scale, view) ==
    LET scaled == RMul(Q(content), scale)
        minT   == RSub(Q(view), scaled)
        maxT   == Q(0)
        t1     == IF RLt(t, minT) THEN minT ELSE t
    IN  IF RLe(scaled, Q(view))
        THEN Half(RSub(Q(view), scaled))
        ELSE IF RLt(maxT, t1) THEN maxT ELSE t1

clampPan(s) ==
    [s EXCEPT !.tx = clampAxis(s.tx, s.cw, s.scale, s.vw),
              !.ty = clampAxis(s.ty, s.ch, s.scale, s.vh)]

_recomputeMinScale(s) ==
    IF s.vw <= 0 \/ s.vh <= 0 \/ s.cw <= 0 \/ s.ch <= 0
    THEN [s EXCEPT !.minScale = Q(1)]
    ELSE LET sx == Rat(s.vw, s.cw)
             sy == Rat(s.vh, s.ch)
             m0 == RMin(sx, sy)
             m  == IF ~isFinite(m0) \/ RLe(m0, Q(0)) THEN Q(1) ELSE m0
             \* this.maxScale || this.minScale * 8
             alt == IF ~isFinite(s.maxScale) \/ s.maxScale[1] = 0
                    THEN RMul(m, Q(8)) ELSE s.maxScale
         IN  [s EXCEPT !.minScale = m,
                       !.maxScale = RMax(RMul(m, Q(8)), alt)]

setViewportSize(s, width, height) ==
    clampPan([s EXCEPT !.vw = IMax(0, ToInt32(width)),
                       !.vh = IMax(0, ToInt32(height))])

\* setContentSize setting the scale to the new minScale
setContentSizeResetScale(s, width, height) ==
    LET s1 == [s EXCEPT !.cw = IMax(1, ToInt32(width)),
                        !.ch = IMax(1, ToInt32(height))]
        s2 == _recomputeMinScale(s1)
        s3 == [s2 EXCEPT !.scale = s2.minScale]
        s4 == [s3 EXCEPT !.maxScale = RMax(RMul(s3.minScale, Q(8)), s3.minScale)]
    IN  clampPan(s4)

setContentSize(s, width, height) ==
    LET s1 == [s EXCEPT !.cw = IMax(1, ToInt32(width)),
                        !.ch = IMax(1, ToInt32(height))]
        s2 == _recomputeMinScale(s1)
        s3 == [s2 EXCEPT !.scale = RMax(s2.scale, s2.minScale)]
        s4 == [s3 EXCEPT !.maxScale = RMax(RMul(s3.minScale, Q(8)), s3.minScale)]
    IN  clampPan(s4)

\* fitContain leaving the content at the top left instead of centring it
fitContainTopLeft(s) ==
    LET s1 == _recomputeMinScale(s)
    IN  [s1 EXCEPT !.scale = s1.minScale, !.tx = Q(0), !.ty = Q(0)]

fitContain(s) ==
    LET s1 == _recomputeMinScale(s)
        s2 == [s1 EXCEPT !.scale = s1.minScale]
        cwScaled == RMul(Q(s2.cw), s2.scale)
        chScaled == RMul(Q(s2.ch), s2.scale)
    IN  [s2 EXCEPT !.tx = Half(RSub(Q(s2.vw), cwScaled)),
                   !.ty = Half(RSub(Q(s2.vh), chScaled))]

\* the scale zoomAt would aim at if it clamped to maxScale only
zoomTargetNoFloor(s, factor) == RMin(s.maxScale, RMul(s.scale, factor))

\* the scale zoomAt aims at: oldScale * factor clamped to [minScale, maxScale]
zoomTarget(s, factor) ==
    RMax(s.minScale, RMin(s.maxScale, RMul(s.scale, factor)))

\* zoomAnchor with the anchor taken after the scale changed (wrong order)
zoomAnchorLate(s, factor, sx, sy) ==
    LET nextScale == zoomTarget(s, factor)
        imageX    == RDiv(RSub(sx, s.tx), nextScale)
        imageY    == RDiv(RSub(sy, s.ty), nextScale)
    IN  [s EXCEPT !.scale = nextScale,
                  !.tx = RSub(sx, RMul(imageX, nextScale)),
                  !.ty = RSub(sy, RMul(imageY, nextScale))]

\* zoomAt up to the assignments of tx, ty (before the final clampPan)
zoomAnchor(s, factor, sx, sy) ==
    LET oldScale  == s.scale
        nextScale == zoomTarget(s, factor)
        imageX    == RDiv(RSub(sx, s.tx), oldScale)
        imageY    == RDiv(RSub(sy, s.ty), oldScale)
    IN  [s EXCEPT !.scale = nextScale,
                  !.tx = RSub(sx, RMul(imageX, nextScale)),
                  !.ty = RSub(sy, RMul(imageY, nextScale))]

\* zoomAt without its test for a zero factor
zoomAtNoZeroTest(s, factor, sx, sy) ==
    IF ~isFinite(factor) THEN s
    ELSE IF zoomTarget(s, factor) = s.scale THEN s
    ELSE clampPan(zoomAnchor(s, factor, sx, sy))

zoomAt(s, factor, sx, sy) ==
    IF ~isFinite(factor) \/ factor[1] = 0 THEN s
    ELSE IF zoomTarget(s, factor) = s.scale THEN s
    ELSE clampPan(zoomAnchor(s, factor, sx, sy))

\* panBy without its closing clampPan
panByNoClamp(s, dx, dy) ==
    IF dx[1] = 0 /\ dy[1] = 0 THEN s
    ELSE [s EXCEPT !.tx = RAdd(s.tx, dx), !.ty = RAdd(s.ty, dy)]

panBy(s, dx, dy) ==
    IF dx[1] = 0 /\ dy[1] = 0 THEN s
    ELSE clampPan([s EXCEPT !.tx = RAdd(s.tx, dx), !.ty = RAdd(s.ty, dy)])

toScreen(s, p) ==
    <<RAdd(RMul(p[1], s.scale), s.tx), RAdd(RMul(p[2], s.scale), s.ty)>>

\* toImage adding the translate instead of subtracting it
toImageSign(s, p) ==
    <<RDiv(RAdd(p[1], s.tx), s.scale), RDiv(RAdd(p[2], s.ty), s.scale)>>

toImage(s, p) ==
    <<RDiv(RSub(p[1], s.tx), s.scale), RDiv(RSub(p[2], s.ty), s.scale)>>


(***************************************************************************)
(* ImageServiceImpl                                                        *)
(***************************************************************************)
imgvars == <<img, input, loads, finished>>

\* most load calls in a run
MaxLoads == 2

SUPPORTED_TYPES == {"image/jpeg", "image/png", "image/webp"}
DISPLAY_MAX_DIM == 6000
HARD_MAX_DIM == 12000
HARD_MAX_PIXELS == 100000000

\* null, and the ImageBitmap objects: their size and which call made them how
NullBitmap == [w |-> 0, h |-> 0, by |-> 0, kind |-> "null"]
Bitmap(w, h, by, kind) == [w |-> w, h |-> h, by |-> by, kind |-> kind]
NullMeta == [by |-> 0]
NoError == [kind |-> "none", isFriendly |-> FALSE]
Friendly(kind) == [kind |-> kind, isFriendly |-> TRUE]
Raw(kind) == [kind |-> kind, isFriendly |-> FALSE]

\* constructor
ImageServiceImpl ==
    [_original |-> NullBitmap, _working |-> NullBitmap, _meta |-> NullMeta,
     DISPLAY_MAX_DIM |-> DISPLAY_MAX_DIM]

\* the hard-limit test with >= for > on the sides
exceedsHardLimitsGe(w, h) ==
    w >= HARD_MAX_DIM \/ h >= HARD_MAX_DIM \/ w * h > HARD_MAX_PIXELS

\* the hard-limit test of _loadFromBlob, before and after normalisation
exceedsHardLimits(w, h) ==
    w > HARD_MAX_DIM \/ h > HARD_MAX_DIM \/ w * h > HARD_MAX_PIXELS

\* Math.round(n / d) for n >= 0, d > 0 (halves go up)
Round(n, d) == (2 * n + d) \div (2 * d)

\* the working size with Math.floor for Math.round
workingSizeFloor(w, h) ==
    LET longSide == IMax(w, h)
    IN  IF longSide <= img.DISPLAY_MAX_DIM THEN <<w, h>>
        ELSE <<IMax(1, (w * img.DISPLAY_MAX_DIM) \div longSide),
               IMax(1, (h * img.DISPLAY_MAX_DIM) \div longSide)>>

\* the size _makeWorkingFromOriginal gives the working buffer of a w x h source
workingSize(w, h) ==
    LET longSide == IMax(w, h)
    IN  IF longSide <= img.DISPLAY_MAX_DIM THEN <<w, h>>
        ELSE <<IMax(1, Round(w * img.DISPLAY_MAX_DIM, longSide)),
               IMax(1, Round(h * img.DISPLAY_MAX_DIM, longSide))>>

\* the canvas size with the test for a quarter turn stopping at code 7
normalizedSizeTo7(sw, sh, orientation) ==
    IF orientation >= 5 /\ orientation <= 7 THEN <<sh, sw>> ELSE <<sw, sh>>

\* the size of the canvas _normalizeOrientation draws a sw x sh bitmap into
normalizedSize(sw, sh, orientation) ==
    IF orientation >= 5 /\ orientation <= 8 THEN <<sh, sw>> ELSE <<sw, sh>>

\* a load call's input: the source kind and its blob. exif is what
\* _readExifOrientation finds in the bytes (0: null, 9: it throws); jpegSig
\* says whether the bytes start with FFD8.
Blob(type, jpegSig, exif, decodable, w, h) ==
    [type |-> type, jpegSig |-> jpegSig, exif |-> exif,
     decodable |-> decodable, w |-> w, h |-> h]
Input(sourceType, fetchOk, blob) ==
    [sourceType |-> sourceType, fetchOk |-> fetchOk, blob |-> blob]
NoInput == [sourceType |-> "none"]
\* a call of resetWorking() instead of a load
ResetInput == [sourceType |-> "reset"]

Loads == 1 .. MaxLoads

IdleLoad ==
    [pc |-> "idle", orientation |-> 0, decoded |-> NullBitmap,
     upright |-> NullBitmap, src |-> NullBitmap, pre |-> ImageServiceImpl,
     alone |-> TRUE, thrown |-> NoError, rejected |-> NoError,
     result |-> ImageServiceImpl]

InFlight(l) ==
    l.pc \in {"fetch", "exif", "decode", "normalize", "working", "resetting"}
Settled(l) == l.pc \in {"done", "failed"}

ImageIdle ==
    /\ img = ImageServiceImpl
    /\ input = [i \in Loads |-> NoInput]
    /\ loads = [i \in Loads |-> IdleLoad]
    /\ finished = <<>>

\* how a load rejects: loadFromFile passes the error of _loadFromBlob on,
\* loadFromUrl wraps whatever its try block threw
rejectWith(i, l, err) ==
    [l EXCEPT !.pc = "failed",
              !.thrown = err,
              !.rejected = IF input[i].sourceType = "url"
                           THEN Friendly("UrlLoadFailed") ELSE err]

\* every other call in flight is no longer alone with the image service
Overlap(ls, i) ==
    [j \in Loads |->
        IF j # i /\ InFlight(ls[j]) THEN [ls[j] EXCEPT !.alone = FALSE]
        ELSE ls[j]]

\* _loadFromBlob without its MIME check
enterLoadFromBlobNoCheck(i, l) == [l EXCEPT !.pc = "exif"]

\* _loadFromBlob up to its first await: the MIME check
enterLoadFromBlob(i, l) ==
    IF input[i].blob.type \notin SUPPORTED_TYPES
    THEN rejectWith(i, l, Friendly("UnsupportedFormat"))
    ELSE [l EXCEPT !.pc = "exif"]

Settle(i, l) ==
    finished' = IF Settled(l) THEN Append(finished, i) ELSE finished

\* loadFromFile / loadFromUrl are called
LoadStart(i) ==
    /\ loads[i].pc = "idle"
    /\ input[i].sourceType \in {"file", "url"}
    /\ LET l0 == [loads[i] EXCEPT
                    !.pre = img,
                    !.alone = \A j \in Loads : ~InFlight(loads[j])]
           l1 == IF input[i].sourceType = "url"
                 THEN [l0 EXCEPT !.pc = "fetch"]
                 ELSE enterLoadFromBlob(i, l0)
       IN  /\ loads' = [Overlap(loads, i) EXCEPT ![i] = l1]
           /\ Settle(i, l1)
    /\ UNCHANGED <<img, input, vp, call, norm, parse, el>>

\* loadFromUrl: fetch and res.blob() settle
FetchDone(i) ==
    /\ loads[i].pc = "fetch"
    /\ LET l1 == IF input[i].fetchOk
                 THEN enterLoadFromBlob(i, loads[i])
                 ELSE rejectWith(i, loads[i], Raw("FetchFailed"))
       IN  /\ loads' = [loads EXCEPT ![i] = l1]
           /\ Settle(i, l1)
    /\ UNCHANGED <<img, input, vp, call, norm, parse, el>>

\* the orientation without `|| 1` and without the catch block
readOrientationRaw(blob) ==
    IF blob.type = "image/jpeg" \/ blob.jpegSig THEN blob.exif ELSE 1

\* the orientation _loadFromBlob settles on (lines 116-126)
readOrientation(blob) ==
    IF blob.type = "image/jpeg" \/ blob.jpegSig
    THEN (IF blob.exif \in 1 .. 8 THEN blob.exif ELSE 1)
    ELSE 1

\* the bytes were read and the EXIF orientation parsed
ExifDone(i) ==
    /\ loads[i].pc = "exif"
    /\ loads' = [loads EXCEPT ![i] =
                    [@ EXCEPT !.pc = "decode",
                              !.orientation = readOrientation(input[i].blob)]]
    /\ UNCHANGED <<img, input, finished, vp, call, norm, parse, el>>

\* DecodeDone without the hard-limit test in front of _normalizeOrientation
DecodeDoneNoPreCheck(i) ==
    /\ loads[i].pc = "decode"
    /\ LET l  == loads[i]
           b  == input[i].blob
           l1 == IF ~b.decodable
                 THEN rejectWith(i, l, Friendly("DecodeFailed"))
                 ELSE [l EXCEPT !.pc = "normalize",
                                !.decoded = Bitmap(b.w, b.h, i, "decoded")]
       IN  /\ loads' = [loads EXCEPT ![i] = l1]
           /\ Settle(i, l1)
    /\ UNCHANGED <<img, input, vp, call, norm, parse, el>>

\* _decodeToBitmap settles; on success the pre-orientation hard limits are
\* tested and _normalizeOrientation is called
DecodeDone(i) ==
    /\ loads[i].pc = "decode"
    /\ LET l  == loads[i]
           b  == input[i].blob
           ex == normalizedSize(b.w, b.h, l.orientation)
           l1 == IF ~b.decodable
                 THEN rejectWith(i, l, Friendly("DecodeFailed"))
                 ELSE IF exceedsHardLimits(ex[1], ex[2])
                 THEN rejectWith(i, l, Friendly("TooLarge"))
                 ELSE [l EXCEPT !.pc = "normalize",
                                !.decoded = Bitmap(b.w, b.h, i, "decoded")]
       IN  /\ loads' = [loads EXCEPT ![i] = l1]
           /\ Settle(i, l1)
    /\ UNCHANGED <<img, input, vp, call, norm, parse, el>>

\* the upright bitmap with the size of the decoded one for every code
normalizeOrientationNoSwap(bitmap, orientation) ==
    IF orientation = 1 THEN bitmap
    ELSE Bitmap(bitmap.w, bitmap.h, bitmap.by, "upright")

\* the bitmap _normalizeOrientation resolves with
normalizeOrientation(bitmap, orientation) ==
    IF orientation = 1 THEN bitmap
    ELSE LET d == normalizedSize(bitmap.w, bitmap.h, orientation)
         IN  Bitmap(d[1], d[2], bitmap.by, "upright")

\* _normalizeOrientation settles (hostOk: the host's canvas-to-bitmap step
\* worked); on success _original is assigned, the hard limits are tested
\* again and _makeWorkingFromOriginal is called, which reads _original
NormalizeDone(i, hostOk) ==
    /\ loads[i].pc = "normalize"
    /\ hostOk \/ loads[i].orientation # 1
    /\ LET l  == loads[i]
           up == normalizeOrientation(l.decoded, l.orientation)
       IN  IF ~hostOk
           THEN /\ loads' = [loads EXCEPT ![i] = rejectWith(i, l, Raw("HostFailed"))]
                /\ finished' = Append(finished, i)
                /\ img' = img
           ELSE IF exceedsHardLimits(up.w, up.h)
           THEN /\ loads' = [loads EXCEPT ![i] =
                                rejectWith(i, [l EXCEPT !.upright = up],
                                           Friendly("TooLarge"))]
                /\ finished' = Append(finished, i)
                /\ img' = [img EXCEPT !._original = NullBitmap,
                                      !._working = NullBitmap]
           ELSE /\ loads' = [loads EXCEPT ![i] =
                                [l EXCEPT !.pc = "working", !.upright = up,
                                          !.src = up]]
                /\ finished' = finished
                /\ img' = [img EXCEPT !._original = up]
    /\ UNCHANGED <<input, vp, call, norm, parse, el>>

\* the bitmap _makeWorkingFromOriginal resolves with for the source it read
makeWorking(src) ==
    LET d == workingSize(src.w, src.h)
    IN  Bitmap(d[1], d[2], src.by, "working")

\* the metadata record of lines 183-200
makeMeta(i, l, working) ==
    [by |-> i,
     sourceType |-> input[i].sourceType,
     mime |-> input[i].blob.type,
     width |-> l.upright.w,
     height |-> l.upright.h,
     orientation |-> l.orientation,
     workingWidth |-> working.w,
     workingHeight |-> working.h,
     isDownscaled |-> (working.w # l.upright.w \/ working.h # l.upright.h),
     downscaleFactor |-> Rat(working.w, l.upright.w)]

\* _makeWorkingFromOriginal settles; on success _working and _meta are
\* assigned and the call returns the service's three fields
WorkingDone(i, hostOk) ==
    /\ loads[i].pc = "working"
    /\ LET l == loads[i]
           w == makeWorking(l.src)
           m == makeMeta(i, l, w)
       IN  IF ~hostOk
           THEN /\ loads' = [loads EXCEPT ![i] = rejectWith(i, l, Raw("HostFailed"))]
                /\ img' = img
           ELSE /\ img' = [img EXCEPT !._working = w, !._meta = m]
                /\ loads' = [loads EXCEPT ![i] =
                                [l EXCEPT !.pc = "done",
                                          !.result = [_original |-> img._original,
                                                      _working |-> w,
                                                      _meta |-> m]]]
    /\ finished' = Append(finished, i)
    /\ UNCHANGED <<input, vp, call, norm, parse, el>>


\* resetWorking cloning the original at its full size
resetWorkingBitmapClone(i, src) == Bitmap(src.w, src.h, i, "working")

\* the bitmap call i of resetWorking gets from _makeWorkingFromOriginal
resetWorkingBitmap(i, src) == [makeWorking(src) EXCEPT !.by = i]

\* resetWorking() is called: without an original it returns at once, else
\* _makeWorkingFromOriginal reads _original and starts the host's copy
ResetStart(i) ==
    /\ loads[i].pc = "idle"
    /\ input[i].sourceType = "reset"
    /\ LET l0 == [loads[i] EXCEPT
                    !.pre = img,
                    !.alone = \A j \in Loads : ~InFlight(loads[j])]
           l1 == IF img._original = NullBitmap
                 THEN [l0 EXCEPT !.pc = "resetDone"]
                 ELSE [l0 EXCEPT !.pc = "resetting", !.src = img._original]
       IN  loads' = [Overlap(loads, i) EXCEPT ![i] = l1]
    /\ UNCHANGED <<img, input, finished, vp, call, norm, parse, el>>

\* _makeWorkingFromOriginal settles and resetWorking assigns _working
ResetDone(i, hostOk) ==
    /\ loads[i].pc = "resetting"
    /\ IF hostOk
       THEN /\ img' = [img EXCEPT
                         !._working = resetWorkingBitmap(i, loads[i].src)]
            /\ loads' = [loads EXCEPT ![i] = [@ EXCEPT !.pc = "resetDone"]]
       ELSE /\ img' = img
            /\ loads' = [loads EXCEPT ![i] =
                            [@ EXCEPT !.pc = "resetFailed",
                                      !.thrown = Raw("HostFailed"),
                                      !.rejected = Raw("HostFailed")]]
    /\ UNCHANGED <<input, finished, vp, call, norm, parse, el>>

(***************************************************************************)
(* The EXIF orientation parser on bytes                                    *)
(***************************************************************************)
\* most non-APP1 segments in front of the Exif segment
MaxBefore == 2
\* most directory entries in front of the orientation entry
MaxSkip == 2

\* the numbers of the JPEG and TIFF formats the parser compares with
SOI == 65496
SOS == 65498
EOI == 65497
APP1 == 65505
TIFF_MAGIC == 42
ORIENTATION_TAG == 274
SHORT == 3

\* a DataView is the sequence of its bytes; a read outside of it throws
RangeError == -1
\* return null
NotFound == 0

getUint8(view, o) ==
    IF o >= 0 /\ o + 1 <= Len(view) THEN view[o + 1] ELSE RangeError

\* getUint16 that ignores its littleEndian argument
getUint16BigEndian(view, o, little) ==
    IF o >= 0 /\ o + 2 <= Len(view)
    THEN 256 * view[o + 1] + view[o + 2]
    ELSE RangeError

getUint16(view, o, little) ==
    IF o >= 0 /\ o + 2 <= Len(view)
    THEN IF little THEN view[o + 1] + 256 * view[o + 2]
                   ELSE 256 * view[o + 1] + view[o + 2]
    ELSE RangeError

getUint32(view, o, little) ==
    IF o >= 0 /\ o + 4 <= Len(view)
    THEN IF little
         THEN view[o + 1] + 256 * (view[o + 2]
                 + 256 * (view[o + 3] + 256 * view[o + 4]))
         ELSE view[o + 4] + 256 * (view[o + 3]
                 + 256 * (view[o + 2] + 256 * view[o + 1]))
    ELSE RangeError

\* the for loop of _readTiffOrientation from entry i on
RECURSIVE scanEntries(_, _, _, _, _)
scanEntries(view, dirOffset, entries, little, i) ==
    LET entryOffset == dirOffset + i * 12
        tag         == getUint16(view, entryOffset, little)
        type        == getUint16(view, entryOffset + 2, little)
        count       == getUint32(view, entryOffset + 4, little)
        value       == getUint16(view, entryOffset + 8, little)
    IN  IF ~(i < entries) THEN NotFound
        ELSE IF entryOffset + 12 > Len(view) THEN NotFound
        ELSE IF tag = RangeError THEN RangeError
        ELSE IF tag = ORIENTATION_TAG
        THEN IF RangeError \in {type, count} THEN RangeError
             ELSE IF type # SHORT \/ count # 1 THEN NotFound
             ELSE IF value = RangeError THEN RangeError
             ELSE IF value >= 1 /\ value <= 8 THEN value
             ELSE NotFound
        ELSE scanEntries(view, dirOffset, entries, little, i + 1)

_readTiffOrientation(view, tiffOffset) ==
    LET length    == Len(view)
        e1        == getUint8(view, tiffOffset)
        e2        == getUint8(view, tiffOffset + 1)
        little    == e1 = 73 /\ e2 = 73     \* 'II'
        big       == e1 = 77 /\ e2 = 77     \* 'MM'
        magic     == getUint16(view, tiffOffset + 2, little)
        ifdOffset == getUint32(view, tiffOffset + 4, little)
        dirOffset == tiffOffset + ifdOffset
        entries   == getUint16(view, dirOffset, little)
    IN  IF tiffOffset + 8 > length THEN NotFound
        ELSE IF RangeError \in {e1, e2} THEN RangeError
        ELSE IF ~little /\ ~big THEN NotFound
        ELSE IF magic = RangeError THEN RangeError
        ELSE IF magic # TIFF_MAGIC THEN NotFound
        ELSE IF ifdOffset = RangeError THEN RangeError
        ELSE IF dirOffset + 2 > length THEN NotFound
        ELSE IF entries = RangeError THEN RangeError
        ELSE scanEntries(view, dirOffset + 2, entries, little, 0)

\* 'Exif\0\0'
ExifSignature == <<69, 120, 105, 102, 0, 0>>

\* the while loop of _readExifOrientation with `offset` at a marker
RECURSIVE scanSegments(_, _)
scanSegments(view, offset) ==
    LET length       == Len(view)
        marker       == getUint16(view, offset, FALSE)
        size         == getUint16(view, offset + 2, FALSE)
        segmentStart == offset + 4
        exifStr      == [k \in 1 .. 6 |-> getUint8(view, segmentStart + k - 1)]
        orient       == _readTiffOrientation(view, segmentStart + 6)
    IN  IF ~(offset + 4 <= length) THEN NotFound
        ELSE IF marker = RangeError THEN RangeError
        ELSE IF marker = SOS \/ marker = EOI THEN NotFound
        ELSE IF marker \div 256 # 255 THEN NotFound
        ELSE IF size = RangeError THEN RangeError
        ELSE IF size < 2 THEN NotFound
        ELSE IF marker = APP1 /\ segmentStart + 6 <= length
        THEN IF \E k \in 1 .. 6 : exifStr[k] = RangeError THEN RangeError
             ELSE IF exifStr = ExifSignature /\ orient # NotFound THEN orient
             ELSE scanSegments(view, offset + 2 + size)
        ELSE scanSegments(view, offset + 2 + size)

\* the orientation 1..8, NotFound, or RangeError when a read throws
_readExifOrientation(view) ==
    LET soi == getUint16(view, 0, FALSE)
    IN  IF soi = RangeError THEN RangeError
        ELSE IF soi # SOI THEN NotFound
        ELSE scanSegments(view, 2)

(***************************************************************************)
(* The parser one loop iteration at a time                                 *)
(***************************************************************************)
\* where a call of _readExifOrientation stands: in the while loop with
\* `offset` at a marker, or in the for loop of _readTiffOrientation at entry
\* `i` of `entries` (next is the offset the while loop goes on from);
\* iterations counts the while loop's iterations begun
NoScan ==
    [pc |-> "idle", offset |-> 0, next |-> 0, dirOffset |-> 0, entries |-> 0,
     little |-> FALSE, i |-> 0, result |-> NotFound, iterations |-> 0]

returned(sc, result) == [sc EXCEPT !.pc = "done", !.result = result]

\* `offset += size` at the end of an iteration of the while loop
nextSegment(sc, next) == [sc EXCEPT !.pc = "segment", !.offset = next]

\* the test of the start-of-image marker
enterParser(view) ==
    LET soi == getUint16(view, 0, FALSE)
    IN  IF soi = RangeError THEN returned(NoScan, RangeError)
        ELSE IF soi # SOI THEN returned(NoScan, NotFound)
        ELSE nextSegment(NoScan, 2)

\* _readTiffOrientation up to its for loop
enterTiff(view, sc, tiffOffset, next) ==
    LET length    == Len(view)
        e1        == getUint8(view, tiffOffset)
        e2        == getUint8(view, tiffOffset + 1)
        little    == e1 = 73 /\ e2 = 73
        big       == e1 = 77 /\ e2 = 77
        magic     == getUint16(view, tiffOffset + 2, little)
        ifdOffset == getUint32(view, tiffOffset + 4, little)
        dirOffset == tiffOffset + ifdOffset
        entries   == getUint16(view, dirOffset, little)
    IN  IF tiffOffset + 8 > length THEN nextSegment(sc, next)
        ELSE IF ~little /\ ~big THEN nextSegment(sc, next)
        ELSE IF magic # TIFF_MAGIC THEN nextSegment(sc, next)
        ELSE IF dirOffset + 2 > length THEN nextSegment(sc, next)
        ELSE [sc EXCEPT !.pc = "entry", !.next = next, !.little = little,
                        !.dirOffset = dirOffset + 2, !.entries = entries,
                        !.i = 0]

\* one iteration of the while loop without its `size < 2` test
segmentStepNoSizeTest(view, sc) ==
    LET length       == Len(view)
        offset       == sc.offset
        marker       == getUint16(view, offset, FALSE)
        size         == getUint16(view, offset + 2, FALSE)
        segmentStart == offset + 4
        exifStr      == [k \in 1 .. 6 |-> getUint8(view, segmentStart + k - 1)]
        begun        == [sc EXCEPT !.iterations = @ + 1]
    IN  IF ~(offset + 4 <= length) THEN returned(sc, NotFound)
        ELSE IF marker = SOS \/ marker = EOI THEN returned(begun, NotFound)
        ELSE IF marker \div 256 # 255 THEN returned(begun, NotFound)
        ELSE IF marker = APP1 /\ segmentStart + 6 <= length
                /\ exifStr = ExifSignature
        THEN enterTiff(view, begun, segmentStart + 6, offset + 2 + size)
        ELSE nextSegment(begun, offset + 2 + size)

\* one iteration of the while loop, as far as the call of
\* _readTiffOrientation
segmentStep(view, sc) ==
    LET length       == Len(view)
        offset       == sc.offset
        marker       == getUint16(view, offset, FALSE)
        size         == getUint16(view, offset + 2, FALSE)
        segmentStart == offset + 4
        exifStr      == [k \in 1 .. 6 |-> getUint8(view, segmentStart + k - 1)]
        begun        == [sc EXCEPT !.iterations = @ + 1]
    IN  IF ~(offset + 4 <= length) THEN returned(sc, NotFound)
        ELSE IF marker = SOS \/ marker = EOI THEN returned(begun, NotFound)
        ELSE IF marker \div 256 # 255 THEN returned(begun, NotFound)
        ELSE IF size < 2 THEN returned(begun, NotFound)
        ELSE IF marker = APP1 /\ segmentStart + 6 <= length
                /\ exifStr = ExifSignature
        THEN enterTiff(view, begun, segmentStart + 6, offset + 2 + size)
        ELSE nextSegment(begun, offset + 2 + size)

\* one iteration of the for loop; a null result lets the while loop go on
entryStep(view, sc) ==
    LET entryOffset == sc.dirOffset + sc.i * 12
        tag         == getUint16(view, entryOffset, sc.little)
        type        == getUint16(view, entryOffset + 2, sc.little)
        count       == getUint32(view, entryOffset + 4, sc.little)
        value       == getUint16(view, entryOffset + 8, sc.little)
    IN  IF ~(sc.i < sc.entries) THEN nextSegment(sc, sc.next)
        ELSE IF entryOffset + 12 > Len(view) THEN nextSegment(sc, sc.next)
        ELSE IF tag = ORIENTATION_TAG
        THEN IF type # SHORT \/ count # 1 THEN nextSegment(sc, sc.next)
             ELSE IF value >= 1 /\ value <= 8 THEN returned(sc, value)
             ELSE nextSegment(sc, sc.next)
        ELSE [sc EXCEPT !.i = @ + 1]

(***************************************************************************)
(* Byte buffers for the parser                                             *)
(***************************************************************************)
U16(n, little) ==
    IF little THEN <<n % 256, n \div 256>> ELSE <<n \div 256, n % 256>>

U32(n, little) ==
    LET b0 == n % 256
        b1 == (n \div 256) % 256
        b2 == (n \div 65536) % 256
        b3 == n \div 16777216
    IN  IF little THEN <<b0, b1, b2, b3>> ELSE <<b3, b2, b1, b0>>

RECURSIVE Repeat(_, _)
Repeat(bytes, n) == IF n <= 0 THEN <<>> ELSE bytes \o Repeat(bytes, n - 1)

\* a marker segment: marker, length (itself included), payload
Segment(marker, payload) ==
    U16(marker, FALSE) \o U16(Len(payload) + 2, FALSE) \o payload

\* a 12-byte directory entry whose value is held in the entry
TiffEntry(tag, type, count, value, little) ==
    U16(tag, little) \o U16(type, little) \o U32(count, little)
        \o U16(value, little) \o <<0, 0>>

\* a TIFF block: byte order, magic, directory offset, directory
Tiff(endian, magic, ifdOffset, gap, entries, n, little) ==
    endian \o U16(magic, little) \o U32(ifdOffset, little)
        \o Repeat(<<0>>, gap) \o U16(n, little) \o entries
        \o U32(0, little)

ExifSegment(tiff) == Segment(APP1, ExifSignature \o tiff)

\* APP0 'JFIF', a quantisation table, a comment that looks like an Exif header
NonApp1Segments ==
    <<Segment(65504, <<74, 70, 73, 70, 0>>),
      Segment(65499, <<0, 16, 11>>),
      Segment(65534, <<255, 225, 0, 8>> \o ExifSignature)>>

RECURSIVE Before(_)
Before(n) == IF n <= 0 THEN <<>> ELSE Before(n - 1) \o NonApp1Segments[n]

\* a table, then start-of-scan with its data and end-of-image
ScanTail == Segment(65476, <<0, 1, 2>>) \o Segment(SOS, <<1, 1, 0>>)
            \o <<17, 34>> \o U16(EOI, FALSE)

\* how a buffer is made: `before` non-APP1 segments, an Exif segment whose
\* directory has `skip` entries and then an orientation entry of the given
\* type, count and value, a second Exif segment with orientation `second`
\* (0: none), the tail or not; `damage` breaks one thing, `cut` keeps a
\* prefix (-1: all of it)
Made(kind, before, after, little, gap, skip, type, count, value, second, damage, cut) ==
    [kind |-> kind, before |-> before, after |-> after, little |-> little,
     gap |-> gap, skip |-> skip, type |-> type, count |-> count,
     value |-> value, second |-> second, damage |-> damage, cut |-> cut]

FirstExif(m) ==
    LET endian == IF m.damage = "endian" THEN <<73, 77>>
                  ELSE IF m.little THEN <<73, 73>> ELSE <<77, 77>>
        magic  == IF m.damage = "magic" THEN 43 ELSE TIFF_MAGIC
        ifd    == IF m.damage = "ifd" THEN 4096 ELSE 8 + m.gap
        others == [k \in 1 .. m.skip |->
                      TiffEntry(255 + k, SHORT, 1, 8, m.little)]
        RECURSIVE Cat(_)
        Cat(k) == IF k = 0 THEN <<>> ELSE Cat(k - 1) \o others[k]
    IN  ExifSegment(Tiff(endian, magic, ifd, m.gap,
            Cat(m.skip) \o TiffEntry(ORIENTATION_TAG, m.type, m.count,
                                     m.value, m.little),
            m.skip + 1, m.little))

SecondExif(m) ==
    IF m.second = 0 THEN <<>>
    ELSE ExifSegment(Tiff(<<77, 77>>, TIFF_MAGIC, 8, 0,
            TiffEntry(ORIENTATION_TAG, SHORT, 1, m.second, FALSE), 1, FALSE))

Full(m) ==
    (IF m.damage = "noSOI" THEN <<255, 224>> ELSE U16(SOI, FALSE))
        \o Before(m.before)
        \o (IF m.damage = "shortSize" THEN U16(65504, FALSE) \o U16(0, FALSE)
            ELSE <<>>)
        \o (IF m.damage = "sosFirst" THEN Segment(SOS, <<1, 1, 0>>)
            ELSE IF m.damage = "eoiFirst" THEN U16(EOI, FALSE) ELSE <<>>)
        \o FirstExif(m)
        \o SecondExif(m)
        \o (IF m.after THEN ScanTail ELSE <<>>)

Build(m) == IF m.cut < 0 THEN Full(m) ELSE SubSeq(Full(m), 1, m.cut)

\* well-formed buffers with orientation V = value
WellFormed ==
    {Made("wellFormed", before, after, little, gap, skip, SHORT, 1, value, 0,
          "none", -1) :
        before \in 0 .. MaxBefore, after \in BOOLEAN, little \in BOOLEAN,
        gap \in {0, 2}, skip \in 0 .. MaxSkip, value \in 1 .. 8}

\* a well-formed buffer cut at every offset
Truncated ==
    UNION {{[m EXCEPT !.kind = "truncated", !.cut = c] :
                c \in 0 .. Len(Full(m)) - 1} :
           m \in {x \in WellFormed :
                    /\ x.before = 1 /\ x.after /\ x.gap = 2
                    /\ x.skip = 1 /\ x.value = 6}}

\* the orientation entry of the first Exif block is not SHORT, count 1, 1..8
Malformed ==
    {m \in {Made("malformed", before, TRUE, little, 0, skip, type, count,
                 value, second, "none", -1) :
               before \in {0, 1}, little \in BOOLEAN, skip \in {0, 1},
               type \in {SHORT, 1, 4}, count \in {1, 0, 2},
               value \in {0, 6, 9, 1536}, second \in {0, 3}} :
        m.type # SHORT \/ m.count # 1 \/ m.value \notin 1 .. 8}

\* buffers with something else wrong
Damaged ==
    {Made("damaged", 1, TRUE, little, 0, 0, SHORT, 1, 6, 0, damage, -1) :
        little \in BOOLEAN,
        damage \in {"noSOI", "sosFirst", "eoiFirst", "endian", "magic",
                    "ifd", "shortSize"}}

ExifInputs == WellFormed \cup Truncated \cup Malformed \cup Damaged

NoParse == [made |-> Made("none", 0, FALSE, FALSE, 0, 0, 0, 0, 0, 0, "none", -1),
            view |-> <<>>, parsed |-> FALSE, result |-> NotFound,
            scan |-> NoScan]

(***************************************************************************)
(* _normalizeOrientation on pixels                                         *)
(***************************************************************************)
\* largest side of a raster
MaxSide == 3
\* most _normalizeOrientation passes in a chain
MaxPasses == 2

\* a bitmap or canvas with its pixels; 0 is a pixel nothing was drawn on
Raster(w, h, px) == [w |-> w, h |-> h, px |-> px]
Pixels(w, h) == (0 .. w - 1) \X (0 .. h - 1)
BlankCanvas(w, h) == Raster(w, h, [p \in Pixels(w, h) |-> 0])
NoPasses == [rasters |-> <<>>, codes |-> <<>>, ids |-> <<>>, heap |-> <<>>]

\* the 2D context's current transform <<a, b, c, d, e, f>>:
\* (x, y) goes to (a*x + c*y + e, b*x + d*y + f)
Identity == <<1, 0, 0, 1, 0, 0>>

ctxTranslate(m, x, y) ==
    <<m[1], m[2], m[3], m[4],
      m[1] * x + m[3] * y + m[5], m[2] * x + m[4] * y + m[6]>>

ctxScale(m, sx, sy) ==
    <<m[1] * sx, m[2] * sx, m[3] * sy, m[4] * sy, m[5], m[6]>>

\* rotate(q * Math.PI / 2) for a whole number q of quarter turns
ctxRotate(m, q) ==
    LET k   == q % 4
        cos == IF k = 0 THEN 1 ELSE IF k = 2 THEN -1 ELSE 0
        sin == IF k = 1 THEN 1 ELSE IF k = 3 THEN -1 ELSE 0
    IN  <<m[1] * cos + m[3] * sin, m[2] * cos + m[4] * sin,
          m[3] * cos - m[1] * sin, m[4] * cos - m[2] * sin, m[5], m[6]>>

\* the transform the switch of _normalizeOrientation sets up
orientationTransform(orientation, sw, sh) ==
    LET d  == normalizedSize(sw, sh, orientation)
        dw == d[1]
        dh == d[2]
        m  == Identity
    IN  CASE orientation = 2 -> ctxScale(ctxTranslate(m, dw, 0), -1, 1)
          [] orientation = 3 -> ctxRotate(ctxTranslate(m, dw, dh), 2)
          [] orientation = 4 -> ctxScale(ctxTranslate(m, 0, dh), 1, -1)
          [] orientation = 5 ->
                ctxTranslate(ctxScale(ctxRotate(m, 1), 1, -1), 0, -sh)
          [] orientation = 6 -> ctxTranslate(ctxRotate(m, 1), 0, -sh)
          [] orientation = 7 ->
                ctxTranslate(ctxScale(ctxRotate(m, -1), 1, -1), -sw, 0)
          [] orientation = 8 -> ctxTranslate(ctxRotate(m, -1), -sw, 0)
          [] OTHER -> m

\* the canvas pixel that drawImage(bitmap, 0, 0) paints source pixel (x, y)
\* on: where the transform takes the pixel's centre (x + 1/2, y + 1/2)
drawnAt(m, x, y) ==
    <<(m[1] * (2 * x + 1) + m[3] * (2 * y + 1) + 2 * m[5]) \div 2,
      (m[2] * (2 * x + 1) + m[4] * (2 * y + 1) + 2 * m[6]) \div 2>>

\* the canvas after drawImage: pixels drawn outside of it are lost
drawImage(canvas, bitmap, m) ==
    LET hits(p) == {q \in Pixels(bitmap.w, bitmap.h) :
                        drawnAt(m, q[1], q[2]) = p}
    IN  [canvas EXCEPT !.px =
            [p \in Pixels(canvas.w, canvas.h) |->
                IF hits(p) = {} THEN canvas.px[p]
                ELSE bitmap.px[CHOOSE q \in hits(p) : TRUE]]]

\* _normalizeOrientation: the upright bitmap
_normalizeOrientation(bitmap, orientation) ==
    IF orientation = 1 THEN bitmap
    ELSE LET d == normalizedSize(bitmap.w, bitmap.h, orientation)
         IN  drawImage(BlankCanvas(d[1], d[2]), bitmap,
                       orientationTransform(orientation, bitmap.w, bitmap.h))

\* _normalizeOrientation on the objects of the host: heap[ref] is the bitmap
\* passed; the result is the heap afterwards and the bitmap returned. Code 1
\* returns the bitmap passed, every other code a bitmap made from a canvas
\* created by the call.
normalizeInHeap(heap, ref, orientation) ==
    IF orientation = 1 THEN [heap |-> heap, ref |-> ref]
    ELSE [heap |-> Append(heap, _normalizeOrientation(heap[ref], orientation)),
          ref  |-> Len(heap) + 1]

(***************************************************************************)
(* MyElement: the custom element that owns the canvases                    *)
(***************************************************************************)
\* most runs of the load handlers (_onChooseSample, _onFileChosen)
MaxHandlers == 2
\* most wheel, resize, zoom-key and pointer-move events
MaxEvents == 1
\* most pointers (mouse, touches) that send pointer events
MaxPointers == 2

\* static get properties(): the reactive properties, the only ones whose
\* assignment Lit records in the changedProperties map
properties == {"_loading", "_error", "_hasImage"}

\* this._downscaleInfo = null
NullInfo == [percent |-> 0, workingWidth |-> 0, workingHeight |-> 0]

\* constructor. Beside the fields of the class: isUpdatePending and changed
\* are Lit's pending update and the keys of its changedProperties map (the
\* constructor's assignments are the first update's), hasUpdated is Lit's
\* flag, handlers are the runs of the two load handlers with their locals,
\* stack is the client size of #canvasStack, canvas the bitmap #baseCanvas
\* shows, events counts the wheel, resize, zoom-key and pointer-move events.
\* connected is the element being in the document, resizeHandling and
\* inputHandling are its listeners being installed, pending counts the
\* callbacks the browser holds for its requestAnimationFrame calls, and
\* _pointerId 0 is null
MyElement ==
    [_loading |-> FALSE, _error |-> "", _hasImage |-> FALSE,
     _bitmap |-> NullBitmap, _downscaleInfo |-> NullInfo, _vpInit |-> FALSE,
     _dirtyImage |-> FALSE, _dirtyViewport |-> FALSE, _dirtyOverlay |-> FALSE,
     _raf |-> 0, _toasts |-> <<>>, _nextToastId |-> 1,
     _spaceDown |-> FALSE, _handActive |-> FALSE, _panning |-> FALSE,
     _pointerId |-> 0, _lastX |-> 0, _lastY |-> 0,
     isUpdatePending |-> TRUE, changed |-> properties, hasUpdated |-> FALSE,
     handlers |-> <<>>, stack |-> <<MaxView, MaxView>>, canvas |-> NullBitmap,
     events |-> 0, connected |-> TRUE, resizeHandling |-> FALSE,
     inputHandling |-> FALSE, pending |-> 0]

\* this[name] = value: a reactive property that changes asks for an update
setProperty(e, name, value) ==
    IF name \in properties /\ e[name] # value
    THEN [e EXCEPT ![name] = value, !.changed = @ \cup {name},
                   !.isUpdatePending = TRUE]
    ELSE [e EXCEPT ![name] = value]

_scheduleRender(e) ==
    IF e._raf # 0 THEN e ELSE [e EXCEPT !._raf = 1, !.pending = @ + 1]

\* an invalidation that schedules a frame only for the image layer
_invalidateImageOnly(e, image, viewport, overlay) ==
    LET e1 == [e EXCEPT !._dirtyImage = @ \/ image,
                        !._dirtyViewport = @ \/ viewport,
                        !._dirtyOverlay = @ \/ overlay]
    IN  IF image THEN _scheduleRender(e1) ELSE e1

_invalidate(e, image, viewport, overlay) ==
    _scheduleRender([e EXCEPT !._dirtyImage = @ \/ image,
                              !._dirtyViewport = @ \/ viewport,
                              !._dirtyOverlay = @ \/ overlay])

_showToast(e, message) ==
    [e EXCEPT !._nextToastId = @ + 1,
              !._toasts = Append(@, [id |-> e._nextToastId,
                                     message |-> message])]

firstUpdated(e) ==
    _invalidate([e EXCEPT !.resizeHandling = TRUE, !.inputHandling = TRUE],
                TRUE, TRUE, TRUE)

\* super.disconnectedCallback(), the two teardowns, and the cancelled frame
disconnectedCallback(e) ==
    LET e1 == [e EXCEPT !.connected = FALSE, !.resizeHandling = FALSE,
                        !.inputHandling = FALSE]
    IN  IF e1._raf # 0 THEN [e1 EXCEPT !._raf = 0, !.pending = @ - 1] ELSE e1

\* when _hasImage changed it tears the input handlers down and installs them
updated(e, changed) ==
    LET e1 == IF "_hasImage" \in changed \/ "_bitmap" \in changed
              THEN _invalidate(
                       [e EXCEPT !._vpInit = @ /\ "_bitmap" \notin changed],
                       TRUE, TRUE, TRUE)
              ELSE e
    IN  IF "_hasImage" \in changed THEN [e1 EXCEPT !.inputHandling = TRUE]
        ELSE e1

\* Lit's update: render, firstUpdated on the first one, updated(changed)
performUpdate(e) ==
    LET e1 == [e EXCEPT !.changed = {}, !.isUpdatePending = FALSE,
                        !.hasUpdated = TRUE]
        e2 == IF e.hasUpdated THEN e1 ELSE firstUpdated(e1)
    IN  updated(e2, e.changed)

\* a load handler up to its await; a run that another run overlaps is marked
handlerStart(e, kind) ==
    LET e1 == setProperty(setProperty(e, "_error", ""), "_loading", TRUE)
        busy == \E j \in DOMAIN e.handlers : e.handlers[j].pc = "awaiting"
        run == [kind |-> kind, pc |-> "awaiting",
                prevBitmap |-> e._bitmap, prevHasImage |-> e._hasImage,
                overlapped |-> busy, message |-> ""]
        marked == [j \in DOMAIN e.handlers |->
                      IF e.handlers[j].pc = "awaiting"
                      THEN [e.handlers[j] EXCEPT !.overlapped = TRUE]
                      ELSE e.handlers[j]]
    IN  [e1 EXCEPT !.handlers = Append(marked, run)]

\* _onFileChosen when no file was chosen
handlerNoFile(e) ==
    [e EXCEPT !.handlers =
        Append(@, [kind |-> "file", pc |-> "returned",
                   prevBitmap |-> e._bitmap, prevHasImage |-> e._hasImage,
                   overlapped |-> FALSE, message |-> ""])]

\* the try block after the await and the finally block
loadResolved(e, h, r) ==
    LET e1 == setProperty(e, "_bitmap", r.working)
        e2 == setProperty(e1, "_hasImage", r.working # NullBitmap)
        e3 == setProperty(e2, "_downscaleInfo",
                 IF r.isDownscaled
                 THEN [percent |-> r.percent, workingWidth |-> r.working.w,
                       workingHeight |-> r.working.h]
                 ELSE NullInfo)
        e4 == setProperty(e3, "_loading", FALSE)
    IN  [e4 EXCEPT !.handlers[h].pc = "done"]

\* (err && err.message) || 'Failed to load sample.' / 'Failed to load image.'
toastMessage(kind, err) ==
    <<IF err.message # "" THEN err.message
      ELSE IF kind = "sample" THEN "Failed to load sample."
      ELSE "Failed to load image.",
      IF kind = "sample" THEN "Try again or choose another image."
      ELSE "Try a PNG, JPEG, or WebP, or resize the image and try again.">>

\* the catch block that sets _bitmap to null instead of the previous bitmap
loadRejectedClearing(e, h, err) ==
    LET run == e.handlers[h]
        e1 == _showToast(e, toastMessage(run.kind, err))
        e2 == setProperty(e1, "_bitmap", NullBitmap)
        e3 == setProperty(e2, "_hasImage", FALSE)
        e4 == setProperty(e3, "_loading", FALSE)
    IN  [e4 EXCEPT !.handlers[h].pc = "failed",
                   !.handlers[h].message = err.message]

\* the catch block and the finally block
loadRejected(e, h, err) ==
    LET run == e.handlers[h]
        e1 == _showToast(e, toastMessage(run.kind, err))
        e2 == setProperty(e1, "_bitmap", run.prevBitmap)
        e3 == setProperty(e2, "_hasImage", run.prevHasImage)
        e4 == setProperty(e3, "_loading", FALSE)
    IN  [e4 EXCEPT !.handlers[h].pc = "failed",
                   !.handlers[h].message = err.message]

\* _draw gets as far as the viewport: the container has a size and there is
\* a bitmap
drawsImage(e) ==
    e.stack[1] > 0 /\ e.stack[2] > 0 /\ e._bitmap # NullBitmap

\* what _draw does to the ViewportService
drawViewport(e, s) ==
    IF ~drawsImage(e) THEN s
    ELSE LET s1 == setViewportSize(s, Q(e.stack[1]), Q(e.stack[2]))
             s2 == setContentSize(s1, Q(e._bitmap.w), Q(e._bitmap.h))
         IN  IF ~e._vpInit THEN fitContain(s2) ELSE clampPan(s2)

\* what _draw does to the element and its base canvas
_draw(e) ==
    IF e.stack[1] <= 0 \/ e.stack[2] <= 0 THEN e
    ELSE IF e._bitmap = NullBitmap THEN [e EXCEPT !.canvas = NullBitmap]
    ELSE [e EXCEPT !._vpInit = TRUE, !.canvas = e._bitmap]

needsDraw(e) == e._dirtyImage \/ e._dirtyViewport \/ e._dirtyOverlay

_renderFrame(e) ==
    LET e1 == [e EXCEPT !._raf = 0, !._dirtyImage = FALSE,
                        !._dirtyViewport = FALSE, !._dirtyOverlay = FALSE]
        e2 == _draw(e1)
    IN  IF ~needsDraw(e) THEN e1
        ELSE IF needsDraw(e2) THEN _scheduleRender(e2) ELSE e2

\* _onKeyDown zooms about the centre of the container, or fits, or neither
zoomsOrFits(ev) ==
    /\ ~ev.text
    /\ \/ ev.meta /\ ev.key \in {"Equal", "Minus"}
       \/ ~ev.meta /\ ev.key = "Digit0"

\* what _onKeyDown does to the ViewportService
keyDownViewport(e, s, ev) ==
    IF ~zoomsOrFits(ev) THEN s
    ELSE IF ev.key = "Equal"
    THEN zoomAt(s, Rat(11, 10), Rat(e.stack[1], 2), Rat(e.stack[2], 2))
    ELSE IF ev.key = "Minus"
    THEN zoomAt(s, Rat(10, 11), Rat(e.stack[1], 2), Rat(e.stack[2], 2))
    ELSE fitContain(s)

\* what _onKeyDown does to the element; ev.text is _isTextInput(e.target)
_onKeyDown(e, ev) ==
    IF ev.text THEN e
    ELSE IF zoomsOrFits(ev) THEN _invalidate(e, FALSE, TRUE, FALSE)
    ELSE IF ev.key = "Space" /\ ~e._spaceDown
    THEN [e EXCEPT !._spaceDown = TRUE, !._handActive = TRUE]
    ELSE e

\* the keyup handler that leaves the hand whether or not a drag goes on
_onKeyUpNoPanTest(e, ev) ==
    IF ev.key = "Space"
    THEN [e EXCEPT !._spaceDown = FALSE, !._handActive = FALSE]
    ELSE e

_onKeyUp(e, ev) ==
    IF ev.key = "Space"
    THEN [e EXCEPT !._spaceDown = FALSE,
                   !._handActive = IF e._panning THEN @ ELSE FALSE]
    ELSE e

_onPointerDown(e, ev) ==
    IF ~e._handActive \/ ev.button # 0 THEN e
    ELSE [e EXCEPT !._panning = TRUE, !._pointerId = ev.pointerId,
                   !._lastX = ev.clientX, !._lastY = ev.clientY]

\* the pointer of a move that _onPointerMove acts on
movesPan(e, ev) == e._panning /\ ev.pointerId = e._pointerId

_onPointerMove(e, ev) ==
    IF ~movesPan(e, ev) THEN e
    ELSE LET e1 == [e EXCEPT !._lastX = ev.clientX, !._lastY = ev.clientY]
         IN  IF ev.clientX # e._lastX \/ ev.clientY # e._lastY
             THEN _invalidate(e1, FALSE, TRUE, FALSE)
             ELSE e1

\* what _onPointerMove does to the ViewportService
pointerMoveViewport(e, s, ev) ==
    IF movesPan(e, ev) /\ (ev.clientX # e._lastX \/ ev.clientY # e._lastY)
    THEN panBy(s, Q(ev.clientX - e._lastX), Q(ev.clientY - e._lastY))
    ELSE s

_onPointerUp(e, ev) ==
    IF ev.pointerId # e._pointerId THEN e
    ELSE [e EXCEPT !._panning = FALSE, !._pointerId = 0,
                   !._handActive = IF e._spaceDown THEN @ ELSE FALSE]

\* keyboard events: the key, Ctrl or Meta held, the target a text input
KeyEvents ==
    [key : {"Space", "Equal", "Minus", "Digit0", "KeyA"},
     meta : BOOLEAN, text : BOOLEAN]
\* pointer events: the pointer, its button and where it is
PointerEvents ==
    [pointerId : 1 .. MaxPointers, button : {0, 2},
     clientX : {0, 1}, clientY : {0, 1}]

\* what the awaited ImageService load resolves with, and rejects with
LoadResults(h) ==
    {[working |-> Bitmap(1, MaxContent, h, "working"),
      isDownscaled |-> FALSE, percent |-> 100],
     [working |-> Bitmap(MaxContent, 1, h, "working"),
      isDownscaled |-> TRUE, percent |-> 50]}
LoadErrors == {[message |-> "Unsupported file type."], [message |-> ""]}
\* Math.exp(-delta * 0.0015) of a wheel event, and where the cursor is
WheelFactors == {Q(2), Rat(1, 2)}
WheelAnchors == {<<Q(1), Q(1)>>}
\* client sizes of #canvasStack
StackSizes == {<<0, 0>>, <<MaxView, 1>>, <<MaxView, MaxView>>}

(***************************************************************************)
(* The element as a state machine: events, promise reactions, Lit's        *)
(* update and animation frames. Lit's update is a microtask, so no event   *)
(* and no frame comes between an assignment and the update it asked for.   *)
(***************************************************************************)
\* click on "Choose sample"; the button is disabled while _loading
ChooseSample ==
    /\ el.hasUpdated /\ el.connected /\ ~el.isUpdatePending /\ ~el._loading
    /\ Len(el.handlers) < MaxHandlers
    /\ el' = handlerStart(el, "sample")
    /\ UNCHANGED <<vp, call, imgvars, norm, parse>>

\* change event of #fileInput, with or without a file
FileChosen(file) ==
    /\ el.hasUpdated /\ el.connected /\ ~el.isUpdatePending
    /\ Len(el.handlers) < MaxHandlers
    /\ el' = IF file THEN handlerStart(el, "file") ELSE handlerNoFile(el)
    /\ UNCHANGED <<vp, call, imgvars, norm, parse>>

\* the promise of loadFromUrl / loadFromFile resolves
LoadResolves(h) ==
    /\ h \in DOMAIN el.handlers
    /\ el.handlers[h].pc = "awaiting"
    /\ \E r \in LoadResults(h) : el' = loadResolved(el, h, r)
    /\ UNCHANGED <<vp, call, imgvars, norm, parse>>

\* the promise of loadFromUrl / loadFromFile rejects
LoadRejects(h) ==
    /\ h \in DOMAIN el.handlers
    /\ el.handlers[h].pc = "awaiting"
    /\ \E err \in LoadErrors : el' = loadRejected(el, h, err)
    /\ UNCHANGED <<vp, call, imgvars, norm, parse>>

PerformUpdate ==
    /\ el.isUpdatePending
    /\ el' = performUpdate(el)
    /\ UNCHANGED <<vp, call, imgvars, norm, parse>>

\* the browser runs a callback of requestAnimationFrame: what it does to the
\* element
FrameCallback ==
    /\ el.pending > 0 /\ ~el.isUpdatePending
    /\ el' = _renderFrame([el EXCEPT !.pending = @ - 1])

\* the callback, with what its _draw does to the ViewportService
AnimationFrame ==
    /\ FrameCallback
    /\ vp' = IF needsDraw(el) THEN drawViewport(el, vp) ELSE vp
    /\ UNCHANGED <<call, imgvars, norm, parse>>

\* _onWheel
Wheel ==
    /\ el.inputHandling /\ ~el.isUpdatePending
    /\ el.events < MaxEvents
    /\ \E f \in WheelFactors, a \in WheelAnchors :
          IF el._bitmap = NullBitmap
          THEN /\ el' = [el EXCEPT !.events = @ + 1]
               /\ vp' = vp
          ELSE /\ el' = _invalidate([el EXCEPT !.events = @ + 1],
                                    FALSE, TRUE, FALSE)
               /\ vp' = zoomAt(vp, f, a[1], a[2])
    /\ UNCHANGED <<call, imgvars, norm, parse>>

\* the container changes size and the ResizeObserver calls back
Resize ==
    /\ el.resizeHandling /\ ~el.isUpdatePending
    /\ el.events < MaxEvents
    /\ \E s \in StackSizes \ {el.stack} :
          el' = _invalidate([el EXCEPT !.events = @ + 1, !.stack = s],
                            FALSE, TRUE, TRUE)
    /\ UNCHANGED <<vp, call, imgvars, norm, parse>>

\* the timer of _showToast runs out
ToastTimeout ==
    /\ ~el.isUpdatePending
    /\ \E k \in DOMAIN el._toasts :
          el' = [el EXCEPT !._toasts = SelectSeq(@, LAMBDA t :
                                          t.id # el._toasts[k].id),
                           !.isUpdatePending = TRUE]
    /\ UNCHANGED <<vp, call, imgvars, norm, parse>>

InitElement ==
    /\ el = MyElement
    /\ vp = ViewportServiceImpl
    /\ call = [op |-> "new", args |-> <<>>, n |-> 0]
    /\ ImageIdle
    /\ norm = NoPasses
    /\ parse = NoParse

NextElement ==
    \/ ChooseSample
    \/ \E file \in BOOLEAN : FileChosen(file)
    \/ \E h \in 1 .. MaxHandlers : LoadResolves(h)
    \/ \E h \in 1 .. MaxHandlers : LoadRejects(h)
    \/ PerformUpdate
    \/ AnimationFrame
    \/ Wheel
    \/ Resize
    \/ ToastTimeout

SpecElement == InitElement /\ [][NextElement]_vars

(***************************************************************************)
(* The render loop of the element, which may leave the document. The       *)
(* browser runs every animation-frame callback it holds and every          *)
(* microtask, so frames and Lit's updates are weakly fair. A step changes  *)
(* the element as FrameCallback says only when it is an AnimationFrame.    *)
(***************************************************************************)
\* the element is removed from the document
Disconnect ==
    /\ el.connected /\ el.hasUpdated /\ ~el.isUpdatePending
    /\ el' = disconnectedCallback(el)
    /\ UNCHANGED <<vp, call, imgvars, norm, parse>>

NextRender ==
    \/ ChooseSample
    \/ \E h \in 1 .. MaxHandlers : LoadResolves(h)
    \/ \E h \in 1 .. MaxHandlers : LoadRejects(h)
    \/ PerformUpdate
    \/ AnimationFrame
    \/ Resize
    \/ Disconnect

SpecRender ==
    /\ InitElement
    /\ [][NextRender]_vars
    /\ WF_el(FrameCallback)
    /\ WF_vars(PerformUpdate)

(***************************************************************************)
(* The keyboard and pointer handlers that _installInputHandling installs   *)
(***************************************************************************)
KeyDown ==
    /\ el.inputHandling /\ ~el.isUpdatePending
    /\ \E ev \in KeyEvents :
          /\ zoomsOrFits(ev) => el.events < MaxEvents
          /\ el' = [_onKeyDown(el, ev) EXCEPT
                      !.events = IF zoomsOrFits(ev) THEN @ + 1 ELSE @]
          /\ vp' = keyDownViewport(el, vp, ev)
    /\ UNCHANGED <<call, imgvars, norm, parse>>

KeyUp ==
    /\ el.inputHandling /\ ~el.isUpdatePending
    /\ \E ev \in KeyEvents : el' = _onKeyUp(el, ev)
    /\ UNCHANGED <<vp, call, imgvars, norm, parse>>

PointerDown ==
    /\ el.inputHandling /\ ~el.isUpdatePending
    /\ \E ev \in PointerEvents : el' = _onPointerDown(el, ev)
    /\ UNCHANGED <<vp, call, imgvars, norm, parse>>

PointerMove ==
    /\ el.inputHandling /\ ~el.isUpdatePending
    /\ \E ev \in PointerEvents :
          /\ ev.button = 0
          /\ movesPan(el, ev) => el.events < MaxEvents
          /\ el' = [_onPointerMove(el, ev) EXCEPT
                      !.events = IF movesPan(el, ev) THEN @ + 1 ELSE @]
          /\ vp' = pointerMoveViewport(el, vp, ev)
    /\ UNCHANGED <<call, imgvars, norm, parse>>

PointerUp ==
    /\ el.inputHandling /\ ~el.isUpdatePending
    /\ \E ev \in PointerEvents : el' = _onPointerUp(el, ev)
    /\ UNCHANGED <<vp, call, imgvars, norm, parse>>

NextInput ==
    \/ PerformUpdate
    \/ AnimationFrame
    \/ KeyDown
    \/ KeyUp
    \/ PointerDown
    \/ PointerMove
    \/ PointerUp

SpecInput == InitElement /\ [][NextInput]_vars

\* a raster whose pixels all differ
Labelled(w, h) == Raster(w, h, [p \in Pixels(w, h) |-> 1 + p[1] + w * p[2]])

InitNormalize ==
    /\ vp = ViewportServiceImpl
    /\ call = [op |-> "new", args |-> <<>>, n |-> 0]
    /\ el = MyElement
    /\ ImageIdle
    /\ parse = NoParse
    /\ \E w \in 1 .. MaxSide, h \in 1 .. MaxSide :
          norm = [rasters |-> <<Labelled(w, h)>>, codes |-> <<>>,
                  ids |-> <<1>>, heap |-> <<Labelled(w, h)>>]

\* the newest bitmap goes through _normalizeOrientation once more; rasters
\* keeps what each bitmap held when it was returned
Normalize(orientation) ==
    /\ Len(norm.codes) < MaxPasses
    /\ LET r == normalizeInHeap(norm.heap, norm.ids[Len(norm.ids)],
                                orientation)
       IN  norm' = [rasters |-> Append(norm.rasters, r.heap[r.ref]),
                    codes |-> Append(norm.codes, orientation),
                    ids |-> Append(norm.ids, r.ref),
                    heap |-> r.heap]
    /\ UNCHANGED <<vp, call, imgvars, parse, el>>

NextNormalize == \E orientation \in 1 .. 8 : Normalize(orientation)

SpecNormalize == InitNormalize /\ [][NextNormalize]_vars

(***************************************************************************)
(* Properties of _normalizeOrientation                                     *)
(***************************************************************************)
\* where orientation code c puts pixel (x, y) of a sw x sh source
Canonical(c, x, y, sw, sh) ==
    CASE c = 2 -> <<sw - 1 - x, y>>
      [] c = 3 -> <<sw - 1 - x, sh - 1 - y>>
      [] c = 4 -> <<x, sh - 1 - y>>
      [] c = 5 -> <<y, x>>
      [] c = 6 -> <<sh - 1 - y, x>>
      [] c = 7 -> <<sh - 1 - y, sw - 1 - x>>
      [] c = 8 -> <<y, sw - 1 - x>>

\* C9: for each orientation code c in 2..8 and every source size, the
\* transform set up by _normalizeOrientation draws every source pixel (x, y)
\* at the canonical position for c, inside the output buffer.
C9_CanonicalMapping ==
    \A i \in 1 .. Len(norm.codes) :
        LET c   == norm.codes[i]
            src == norm.rasters[i]
            out == norm.rasters[i + 1]
        IN  c \in 2 .. 8 =>
                \A q \in Pixels(src.w, src.h) :
                    LET at == drawnAt(orientationTransform(c, src.w, src.h),
                                      q[1], q[2])
                    IN  /\ at = Canonical(c, q[1], q[2], src.w, src.h)
                        /\ at \in Pixels(out.w, out.h)
                        /\ out.px[at] = src.px[q]

\* C11: _normalizeOrientation returns the very same input buffer for code 1;
\* for codes 2, 3 and 4 the output has the input's width and height; for
\* codes 5, 6, 7 and 8 the output width is the input height and the output
\* height is the input width; for codes 2..8 the result is a newly created
\* buffer and the source is not modified.
C11_NormalizerBuffers ==
    \A i \in 1 .. Len(norm.codes) :
        LET c   == norm.codes[i]
            src == norm.rasters[i]
            out == norm.rasters[i + 1]
        IN  /\ c = 1 => (norm.ids[i + 1] = norm.ids[i] /\ out = src)
            /\ c \in 2 .. 4 => (out.w = src.w /\ out.h = src.h)
            /\ c \in 5 .. 8 => (out.w = src.h /\ out.h = src.w)
            /\ c \in 2 .. 8 =>
                  /\ norm.ids[i + 1] \notin {norm.ids[j] : j \in 1 .. i}
                  /\ norm.heap[norm.ids[i]] = src

\* a bitmap that is not square went through code 8 and then through code 1
C11_Witness ==
    /\ norm.codes = <<8, 1>>
    /\ norm.rasters[1].w # norm.rasters[1].h
    /\ norm.rasters[2].w = norm.rasters[1].h
    /\ norm.ids = <<1, 2, 2>>

\* C10: normalize(., c) applied twice is the identity for c in {2,3,4,5,7}
\* (and c = 1), and normalize(., 6) and normalize(., 8) undo each other.
C10_RoundTrip ==
    (/\ Len(norm.codes) = 2
     /\ \/ norm.codes[1] = norm.codes[2] /\ norm.codes[1] \in {1, 2, 3, 4, 5, 7}
        \/ norm.codes = <<6, 8>>
        \/ norm.codes = <<8, 6>>)
        => norm.rasters[3] = norm.rasters[1]

(***************************************************************************)
(* Arguments the callers pass                                              *)
(***************************************************************************)
\* sizes are doubles: negative, fractional and integral ones
ViewArgs ==
    {<<Q(-1), Q(0)>>, <<Rat(3, 2), Q(MaxView)>>, <<Q(MaxView), Q(1)>>,
     <<Q(MaxView), Q(MaxView)>>}
ContentArgs ==
    {<<Rat(1, 2), Q(0)>>, <<Q(1), Q(MaxContent)>>,
     <<Q(MaxContent), Q(MaxContent)>>}
Factors == {Q(2), Q(4), Rat(1, 2), Q(-1), Q(0), NaN, PosInf, NegInf}
Anchors == {<<Q(0), Q(0)>>, <<Q(1), Q(MaxView)>>}
Deltas == {<<Q(0), Q(0)>>, <<Q(1), Q(0)>>, <<Q(-1), Q(1)>>, <<Q(0), Q(-1)>>}

(***************************************************************************)
(* The viewport as a state machine: one action per public method           *)
(***************************************************************************)
InitViewport ==
    /\ vp = ViewportServiceImpl
    /\ call = [op |-> "new", args |-> <<>>, n |-> 0]
    /\ el = MyElement
    /\ ImageIdle
    /\ norm = NoPasses
    /\ parse = NoParse

Called(op, args) ==
    /\ call' = [op |-> op, args |-> args, n |-> call.n + 1]
    /\ UNCHANGED <<imgvars, norm, parse, el>>

SetViewportSize ==
    \E a \in ViewArgs :
        /\ call.n < MaxCalls
        /\ vp' = setViewportSize(vp, a[1], a[2])
        /\ Called("setViewportSize", a)

SetContentSize ==
    \E a \in ContentArgs :
        /\ call.n < MaxCalls
        /\ vp' = setContentSize(vp, a[1], a[2])
        /\ Called("setContentSize", a)

FitContain ==
    /\ call.n < MaxCalls
    /\ vp' = fitContain(vp)
    /\ Called("fitContain", <<>>)

ZoomAt ==
    \E f \in Factors, a \in Anchors :
        /\ call.n < MaxCalls
        /\ vp' = zoomAt(vp, f, a[1], a[2])
        /\ Called("zoomAt", <<f, a[1], a[2]>>)

PanBy ==
    \E d \in Deltas :
        /\ call.n < MaxCalls
        /\ vp' = panBy(vp, d[1], d[2])
        /\ Called("panBy", <<d[1], d[2]>>)

ClampPan ==
    /\ call.n < MaxCalls
    /\ vp' = clampPan(vp)
    /\ Called("clampPan", <<>>)

NextViewport ==
    \/ SetViewportSize
    \/ SetContentSize
    \/ FitContain
    \/ ZoomAt
    \/ PanBy
    \/ ClampPan

SpecViewport == InitViewport /\ [][NextViewport]_vars


(***************************************************************************)
(* The parser applied to a buffer                                          *)
(***************************************************************************)
InitExif ==
    /\ vp = ViewportServiceImpl
    /\ call = [op |-> "new", args |-> <<>>, n |-> 0]
    /\ el = MyElement
    /\ ImageIdle
    /\ norm = NoPasses
    /\ \E m \in ExifInputs :
          parse = [made |-> m, view |-> Build(m), parsed |-> FALSE,
                   result |-> NotFound, scan |-> NoScan]

\* _readExifOrientation(new DataView(buf)) returns or throws
ReadExifOrientation ==
    /\ ~parse.parsed
    /\ parse' = [parse EXCEPT !.parsed = TRUE,
                              !.result = _readExifOrientation(parse.view)]
    /\ UNCHANGED <<vp, call, imgvars, norm, el>>

NextExif == ReadExifOrientation

SpecExif == InitExif /\ [][NextExif]_vars

(***************************************************************************)
(* The parser run one loop iteration at a time. The function is            *)
(* synchronous: a call that has begun keeps taking steps until it returns. *)
(***************************************************************************)
EnterParser ==
    /\ parse.scan.pc = "idle"
    /\ parse' = [parse EXCEPT !.scan = enterParser(parse.view)]
    /\ UNCHANGED <<vp, call, imgvars, norm, el>>

SegmentStep ==
    /\ parse.scan.pc = "segment"
    /\ parse' = [parse EXCEPT !.scan = segmentStep(parse.view, parse.scan)]
    /\ UNCHANGED <<vp, call, imgvars, norm, el>>

EntryStep ==
    /\ parse.scan.pc = "entry"
    /\ parse' = [parse EXCEPT !.scan = entryStep(parse.view, parse.scan)]
    /\ UNCHANGED <<vp, call, imgvars, norm, el>>

NextExifSteps == EnterParser \/ SegmentStep \/ EntryStep

SpecExifSteps == InitExif /\ [][NextExifSteps]_vars /\ WF_vars(NextExifSteps)

(***************************************************************************)
(* The load pipeline as a state machine: one action per await point        *)
(***************************************************************************)
\* decoded sizes around the guardrail thresholds
SizeCases ==
    {<<1, 1>>, <<3000, 2000>>, <<4000, 3000>>, <<3000, 4000>>, <<6000, 6000>>,
     <<6001, 1>>, <<12000, 6000>>, <<12000, 8001>>, <<12000, 1>>,
     <<12001, 1>>, <<1, 12001>>, <<10000, 10000>>, <<10001, 10001>>,
     <<12000, 8334>>, <<8334, 12000>>, <<8001, 12000>>, <<1, 12000>>}

\* JPEG bytes under another type, a JPEG type on other bytes, a WebP
OrientationInputs ==
    {Input("file", TRUE, Blob("image/png", TRUE, e, TRUE, 3000, 2000)) :
        e \in {0, 2, 4, 7, 9}}
    \cup {Input("file", TRUE, Blob("image/jpeg", FALSE, 0, TRUE, 3000, 2000)),
          Input("url", TRUE, Blob("image/webp", FALSE, 0, TRUE, 3000, 2000)),
          Input("url", TRUE, Blob("image/jpeg", TRUE, 9, TRUE, 3000, 2000))}

\* one load for each kind of failure, from a file and from a URL
FailingInputs ==
    {Input(src, TRUE, b) :
        src \in {"file", "url"},
        b \in {Blob("image/gif", FALSE, 0, TRUE, 1, 1),
               Blob("image/svg+xml", FALSE, 0, TRUE, 1, 1),
               Blob("", TRUE, 6, TRUE, 1, 1),
               Blob("image/png", FALSE, 0, FALSE, 1, 1),
               Blob("image/webp", FALSE, 0, TRUE, 12001, 1),
               Blob("image/jpeg", TRUE, 6, TRUE, 12001, 1)}}
    \cup {Input("url", FALSE, Blob("image/png", FALSE, 0, TRUE, 1, 1))}

\* one load of a decodable file, every size case and kind of orientation
SingleInputs ==
    {Input("file", TRUE, Blob("image/jpeg", TRUE, e, TRUE, d[1], d[2])) :
        e \in {0, 1, 3, 5, 6, 8, 9}, d \in SizeCases}
    \cup {Input("file", TRUE, Blob("image/png", FALSE, 0, TRUE, d[1], d[2])) :
        d \in SizeCases}
    \cup OrientationInputs
    \cup FailingInputs

\* loads that may overlap: good ones and one of each kind of failure
RaceInputs ==
    {Input("file", TRUE, Blob("image/png", FALSE, 0, TRUE, 4000, 3000)),
     Input("file", TRUE, Blob("image/jpeg", TRUE, 6, TRUE, 3000, 4000)),
     Input("url", TRUE, Blob("image/webp", FALSE, 0, TRUE, 12000, 6000)),
     Input("url", FALSE, Blob("image/png", FALSE, 0, TRUE, 1, 1)),
     Input("file", TRUE, Blob("image/gif", FALSE, 0, TRUE, 1, 1)),
     Input("file", TRUE, Blob("image/png", FALSE, 0, FALSE, 1, 1)),
     Input("file", TRUE, Blob("image/jpeg", TRUE, 8, TRUE, 1, 12001))}

\* the loads that resetWorking() calls come before, during or after
ResetBases ==
    {Input("file", TRUE, Blob("image/png", FALSE, 0, TRUE, 12000, 8001)),
     Input("file", TRUE, Blob("image/jpeg", TRUE, 6, TRUE, 3000, 4000)),
     Input("url", TRUE, Blob("image/webp", FALSE, 0, TRUE, 1, 12000)),
     Input("file", TRUE, Blob("image/gif", FALSE, 0, TRUE, 1, 1))}

\* The service as an earlier, completed load of a 9000 x 6000 PNG left it:
\* the calls that follow find an original, a working copy and metadata.
EarlierOriginal == Bitmap(9000, 6000, 0, "decoded")
EarlierImage ==
    [_original |-> EarlierOriginal,
     _working |-> Bitmap(6000, 4000, 0, "working"),
     DISPLAY_MAX_DIM |-> DISPLAY_MAX_DIM,
     _meta |-> [by |-> 0,
                sourceType |-> "file",
                mime |-> "image/png",
                width |-> 9000,
                height |-> 6000,
                orientation |-> 1,
                workingWidth |-> 6000,
                workingHeight |-> 4000,
                isDownscaled |-> TRUE,
                downscaleFactor |-> Rat(6000, 9000)]]

InitImage ==
    /\ vp = ViewportServiceImpl
    /\ call = [op |-> "new", args |-> <<>>, n |-> 0]
    /\ el = MyElement
    /\ norm = NoPasses
    /\ parse = NoParse
    /\ loads = [i \in Loads |-> IdleLoad]
    /\ finished = <<>>
    /\ \/ /\ img = ImageServiceImpl
          /\ \E x \in SingleInputs :
                input = [i \in Loads |-> IF i = 1 THEN x ELSE NoInput]
       \/ /\ img = ImageServiceImpl
          /\ input \in [Loads -> RaceInputs]
       \/ /\ img \in {ImageServiceImpl, EarlierImage}
          /\ \E x \in ResetBases :
                input = [i \in Loads |-> IF i = 1 THEN x ELSE ResetInput]

NextImage ==
    \E i \in Loads :
        \/ LoadStart(i)
        \/ FetchDone(i)
        \/ ExifDone(i)
        \/ DecodeDone(i)
        \/ \E hostOk \in BOOLEAN : NormalizeDone(i, hostOk)
        \/ \E hostOk \in BOOLEAN : WorkingDone(i, hostOk)
        \/ ResetStart(i)
        \/ \E hostOk \in BOOLEAN : ResetDone(i, hostOk)

SpecImage == InitImage /\ [][NextImage]_vars

(***************************************************************************)
(* The same service with a caller that awaits every call before it makes   *)
(* the next one, and assigns the tunable DISPLAY_MAX_DIM between calls.     *)
(***************************************************************************)
Tunings == {3000, DISPLAY_MAX_DIM, 9000}

Quiet == \A j \in Loads : ~InFlight(loads[j])

SetDisplayMaxDim(d) ==
    /\ Quiet
    /\ d # img.DISPLAY_MAX_DIM
    /\ img' = [img EXCEPT !.DISPLAY_MAX_DIM = d]
    /\ UNCHANGED <<input, loads, finished, vp, call, norm, parse, el>>

NextSequential ==
    \/ \E d \in Tunings : SetDisplayMaxDim(d)
    \/ \E i \in Loads :
        \/ Quiet /\ LoadStart(i)
        \/ FetchDone(i)
        \/ ExifDone(i)
        \/ DecodeDone(i)
        \/ \E hostOk \in BOOLEAN : NormalizeDone(i, hostOk)
        \/ \E hostOk \in BOOLEAN : WorkingDone(i, hostOk)
        \/ Quiet /\ ResetStart(i)
        \/ \E hostOk \in BOOLEAN : ResetDone(i, hostOk)

SpecSequential == InitImage /\ [][NextSequential]_vars

(***************************************************************************)
(* Properties of the load pipeline                                         *)
(***************************************************************************)
\* C3: if a load fails for any reason, getOriginal(), getWorking() and
\* getMetadata() return exactly what they returned before that load started
\* (stated for a load that no other load overlaps).
C3_FailedLoadLeavesState ==
    [][\A i \in Loads :
          (loads[i].pc # "failed" /\ loads'[i].pc = "failed" /\ loads'[i].alone)
             => img' = loads'[i].pre]_vars

\* C4: when overlapping loads have all succeeded and completed, the committed
\* original, working and metadata all come from the load that completed last.
C4_LastCompletedWins ==
    (\A i \in Loads : loads[i].pc = "done") =>
        LET last == finished[Len(finished)]
        IN  /\ img._original.by = last
            /\ img._working.by = last
            /\ img._meta.by = last

\* the load got a decoded bitmap from _decodeToBitmap
PastDecode(l) ==
    \/ l.pc \in {"normalize", "working", "done"}
    \/ l.pc = "failed" /\ l.thrown.kind \in {"TooLarge", "HostFailed"}

\* the size the decoded bitmap has once its orientation is applied
PostOrientation(b, orientation) ==
    IF orientation \in {5, 6, 7, 8} THEN <<b.h, b.w>> ELSE <<b.w, b.h>>

\* C5: a decoded image whose post-orientation size is w x h is rejected with
\* the 'too large' error exactly when w > HARD_MAX_DIM or h > HARD_MAX_DIM or
\* w*h > HARD_MAX_PIXELS; so 12000x1 and 10000x10000 are accepted and
\* 12001x1 and 10001x10001 are rejected.
C5_HardLimits ==
    \A i \in Loads :
        PastDecode(loads[i]) =>
            LET d == PostOrientation(input[i].blob, loads[i].orientation)
                rejected == loads[i].thrown = Friendly("TooLarge")
            IN  /\ rejected <=> (\/ d[1] > HARD_MAX_DIM
                                 \/ d[2] > HARD_MAX_DIM
                                 \/ d[1] * d[2] > HARD_MAX_PIXELS)
                /\ d \in {<<12000, 1>>, <<10000, 10000>>} => ~rejected
                /\ d \in {<<12001, 1>>, <<10001, 10001>>} => rejected

\* a 10000 x 10000 image, exactly at the pixel cap, was loaded
C5_Witness ==
    /\ loads[1].pc = "done"
    /\ img._original.w = 10000 /\ img._original.h = 10000
    /\ img._meta.by = 1

\* r is n/d rounded to the nearest integer
IsRounded(r, n, d) == 2 * n - d < 2 * d * r /\ 2 * d * r <= 2 * n + d

\* the downscale policy: the side `ws` of working for the side `s` of an
\* original whose long side is `longSide`
IsWorkingSide(ws, s, longSide) ==
    IF longSide <= DISPLAY_MAX_DIM THEN ws = s
    ELSE \/ ws >= 1 /\ IsRounded(ws, s * DISPLAY_MAX_DIM, longSide)
         \/ ws = 1 /\ 2 * s * DISPLAY_MAX_DIM < longSide

\* C6: the working buffer built from an original of size w x h has size
\* (w, h) when max(w,h) <= DISPLAY_MAX_DIM, else (max(1, round(w*f)),
\* max(1, round(h*f))) with f = DISPLAY_MAX_DIM / max(w,h): 12000x6000 gives
\* 6000x3000, 3000x2000 is unchanged, and no side of working exceeds
\* DISPLAY_MAX_DIM.
C6_WorkingSize ==
    \A i \in Loads :
        loads[i].pc = "done" =>
            LET o == loads[i].src
                w == loads[i].result._working
                longSide == IMax(o.w, o.h)
            IN  /\ IsWorkingSide(w.w, o.w, longSide)
                /\ IsWorkingSide(w.h, o.h, longSide)
                /\ w.w <= DISPLAY_MAX_DIM /\ w.h <= DISPLAY_MAX_DIM
                /\ (o.w = 12000 /\ o.h = 6000) => (w.w = 6000 /\ w.h = 3000)
                /\ (o.w = 3000 /\ o.h = 2000) => (w.w = 3000 /\ w.h = 2000)

\* a 12000 x 8001 original got a 6000 x 4001 working buffer (4000.5 rounds up)
C6_Witness ==
    /\ loads[1].pc = "done"
    /\ img._original.w = 12000 /\ img._original.h = 8001
    /\ img._working.w = 6000 /\ img._working.h = 4001

\* the blob is JPEG-typed or JPEG-signatured
LooksJpeg(b) == b.type = "image/jpeg" \/ b.jpegSig

\* C15: orientation is fail-open: if orientation parsing returns not-found or
\* throws, or the input is neither JPEG-typed nor JPEG-signatured, the load
\* goes on to decode with orientation 1 and does not fail there; after every
\* successful load metadata.orientation is an integer in 1..8.
C15_OrientationFailOpen ==
    [][\A i \in Loads :
          /\ (loads[i].pc = "exif" /\ loads'[i].pc # "exif") =>
                /\ loads'[i].pc = "decode"
                /\ loads'[i].orientation \in 1 .. 8
                /\ (input[i].blob.exif \notin 1 .. 8 \/ ~LooksJpeg(input[i].blob))
                      => loads'[i].orientation = 1
          /\ (loads[i].pc # "done" /\ loads'[i].pc = "done") =>
                /\ img'._meta.orientation \in 1 .. 8
                /\ loads'[i].result._meta.orientation = loads[i].orientation
      ]_vars

\* a JPEG whose orientation parse threw was loaded with orientation 1
C15_Witness ==
    /\ loads[1].pc = "done"
    /\ LooksJpeg(input[1].blob) /\ input[1].blob.exif = 9
    /\ img._meta.by = 1 /\ img._meta.orientation = 1

\* C16: a load whose blob type is not one of image/jpeg, image/png,
\* image/webp fails with the unsupported-format error before any byte read,
\* orientation parse or decode step is started, and every blob with one of
\* those three types passes this check.
C16_UnsupportedRejectedFirst ==
    \A i \in Loads :
        input[i].sourceType \in {"file", "url"} =>
            LET l == loads[i]
                b == input[i].blob
            IN  /\ b.type \notin {"image/jpeg", "image/png", "image/webp"} =>
                      /\ l.pc \in {"idle", "fetch", "failed"}
                      /\ l.orientation = 0 /\ l.decoded = NullBitmap
                      /\ (l.pc = "failed" /\ input[i].fetchOk)
                            => l.thrown = Friendly("UnsupportedFormat")
                /\ b.type \in {"image/jpeg", "image/png", "image/webp"} =>
                      /\ l.thrown # Friendly("UnsupportedFormat")
                      /\ (l.pc = "failed" /\ input[i].fetchOk)
                            => l.thrown.kind \in
                                  {"DecodeFailed", "TooLarge", "HostFailed"}

\* a fetched blob whose bytes are a JPEG but whose type is empty was rejected
C16_Witness ==
    /\ loads[1].pc = "failed"
    /\ input[1].sourceType = "url" /\ input[1].blob.type = ""
    /\ input[1].blob.jpegSig
    /\ loads[1].thrown = Friendly("UnsupportedFormat")

\* C17: every UnsupportedFormat, DecodeFailed, FetchFailed or TooLarge error
\* raised inside the pipeline reaches the caller of load with its kind and
\* message unchanged, for File sources and for URL sources alike.
C17_ErrorsVerbatim ==
    \A i \in Loads :
        (/\ loads[i].pc = "failed"
         /\ loads[i].thrown.kind \in
               {"UnsupportedFormat", "DecodeFailed", "FetchFailed", "TooLarge"})
            => loads[i].rejected = loads[i].thrown

\* C18: every error with which loadFromFile or loadFromUrl rejects is a
\* friendly error, also when the host's canvas-to-bitmap or decode step fails
\* during orientation normalisation or working-copy creation.
C18_AllFriendly ==
    \A i \in Loads :
        loads[i].pc = "failed" => loads[i].rejected.isFriendly

DoneMetadata(i) ==
    LET b == input[i].blob
        c == loads[i].orientation
        m == loads[i].result._meta
    IN  /\ c \in {1, 2, 3, 4} => (m.width = b.w /\ m.height = b.h)
        /\ c \in {5, 6, 7, 8} => (m.width = b.h /\ m.height = b.w)
        /\ m.isDownscaled <=> IMax(m.width, m.height) > DISPLAY_MAX_DIM
        /\ (b.type = "image/png" /\ b.w = 4000 /\ b.h = 3000) =>
              (/\ m.orientation = 1 /\ m.width = 4000 /\ m.height = 3000
               /\ ~m.isDownscaled)

\* what C24 says of the original a load that is done returned
DoneOriginal(i) ==
    LET b == input[i].blob
        c == loads[i].orientation
        o == loads[i].result._original
    IN  /\ c \in {1, 2, 3, 4} => (o.w = b.w /\ o.h = b.h)
        /\ c \in {5, 6, 7, 8} => (o.w = b.h /\ o.h = b.w)
        /\ (b.exif = 6 /\ b.w = 3000 /\ b.h = 4000) => (o.w = 4000 /\ o.h = 3000)

C25_DownscaleFactor ==
    \A i \in Loads :
        loads[i].pc = "done" =>
            LET m == loads[i].result._meta
                f == m.downscaleFactor
            IN  /\ RLt(Q(0), f) /\ RLe(f, Q(1))
                /\ ~m.isDownscaled => f = Q(1)
                /\ m.isDownscaled =>
                      /\ f = Rat(DISPLAY_MAX_DIM, IMax(m.width, m.height))
                      /\ RLt(f, Q(1))

\* C26: when the pre-orientation hard-limit check rejects, the load fails
\* with the 'too large' error before _normalizeOrientation is invoked and
\* before original, working or metadata are assigned.
C26_RejectedBeforeNormalize ==
    [][\A i \in Loads :
          LET b == input[i].blob
              d == PostOrientation(b, loads[i].orientation)
              over == \/ d[1] > HARD_MAX_DIM \/ d[2] > HARD_MAX_DIM
                      \/ d[1] * d[2] > HARD_MAX_PIXELS
          IN  /\ (/\ loads[i].pc = "decode" /\ loads'[i].pc # "decode"
                  /\ b.decodable /\ over)
                    => /\ loads'[i].pc = "failed"
                       /\ loads'[i].thrown = Friendly("TooLarge")
              /\ (/\ loads[i].pc # "failed" /\ loads'[i].pc = "failed"
                  /\ loads'[i].thrown = Friendly("TooLarge"))
                    => /\ loads[i].pc = "decode"
                       /\ loads'[i].upright = NullBitmap
                       /\ img' = img
      ]_vars

\* a JPEG decoded as 1 x 12001 with tag 8 was rejected before anything was
\* assigned, while another load's image stayed committed
C26_Witness ==
    \E i \in Loads :
        /\ loads[i].pc = "failed"
        /\ loads[i].thrown = Friendly("TooLarge")
        /\ input[i].blob.h = 12001 /\ loads[i].orientation = 8
        /\ img._original # NullBitmap /\ img._meta # NullMeta

\* C33: for every decoded size and orientation code the hard-limit check
\* after normalisation gives the verdict of the check in front of it, so a
\* load that passed the first check is never rejected by the second and a
\* load never resets original and working to null.
C33_ChecksAgree ==
    [][\A i \in Loads :
          LET l  == loads[i]
              b  == input[i].blob
              ex == normalizedSize(b.w, b.h, l.orientation)
              up == normalizeOrientation(Bitmap(b.w, b.h, i, "decoded"),
                                         l.orientation)
          IN  /\ PastDecode(l) =>
                    (exceedsHardLimits(up.w, up.h)
                        <=> exceedsHardLimits(ex[1], ex[2]))
              /\ (l.pc = "normalize" /\ loads'[i].pc # "normalize") =>
                    /\ ~exceedsHardLimits(ex[1], ex[2])
                    /\ loads'[i].thrown # Friendly("TooLarge")
                    /\ \/ loads'[i].pc = "working" /\ img'._original = up
                       \/ loads'[i].thrown = Raw("HostFailed") /\ img' = img
              /\ img._original # NullBitmap => img'._original # NullBitmap
              /\ img._working # NullBitmap => img'._working # NullBitmap
      ]_vars

\* a JPEG decoded as 8001 x 12000 with tag 5 passed both checks and was
\* committed as 12000 x 8001
C33_Witness ==
    \E i \in Loads :
        /\ loads[i].pc = "done"
        /\ loads[i].orientation = 5
        /\ loads[i].decoded.w = 8001 /\ loads[i].decoded.h = 12000
        /\ img._original = loads[i].upright
        /\ img._original.w = 12000 /\ img._original.h = 8001

\* C34: a successful load returns an original, a working copy and metadata
\* that were all produced from that call's own input, even when another load
\* on the same ImageService overlaps it.
C34_ReturnsOwnImage ==
    \A i \in Loads :
        loads[i].pc = "done" =>
            /\ loads[i].result._original.by = i
            /\ loads[i].result._original = loads[i].upright
            /\ loads[i].result._working.by = i
            /\ loads[i].result._meta.by = i

\* The original a working copy was made from: the one its maker read, or the
\* earlier load's original for the working copy that load left.
SourceOf(working) ==
    IF working.by \in Loads THEN loads[working.by].src ELSE EarlierOriginal

\* C35: when a resetWorking call and a load that overlapped it have both
\* completed, the working copy is the one made from the committed original.
C35_ResetUsesCommitted ==
    \A r, j \in Loads :
        (/\ loads[r].pc = "resetDone" /\ ~loads[r].alone
         /\ loads[j].pc = "done" /\ ~loads[j].alone
         /\ \A k \in Loads : ~InFlight(loads[k]))
            => SourceOf(img._working) = img._original

\* original, working and metadata agree: all absent, or all present with the
\* sizes the metadata records being those of the two bitmaps
Consistent(s) ==
    \/ s._original = NullBitmap /\ s._working = NullBitmap /\ s._meta = NullMeta
    \/ /\ s._original # NullBitmap /\ s._working # NullBitmap
       /\ s._meta # NullMeta
       /\ s._meta.width = s._original.w /\ s._meta.height = s._original.h
       /\ s._meta.workingWidth = s._working.w
       /\ s._meta.workingHeight = s._working.h
       /\ s._meta.isDownscaled <=>
              (s._working.w # s._original.w \/ s._working.h # s._original.h)

\* C36: between the calls of a caller that never overlaps load and
\* resetWorking, and may change DISPLAY_MAX_DIM between them, original,
\* working and metadata are all null or all non-null, and the metadata
\* records the sizes of original and working and whether they differ.
C36_Consistent == Quiet => Consistent(img)

\* the browser ran a frame callback of the element
FrameRan == el'.pending < el.pending /\ el'.connected = el.connected

\* C37: while the element is connected every invalidation has a frame
\* pending, also one issued while a frame was pending already; the frame
\* comes, and the dirty flags are cleared only by a frame that runs _draw;
\* after a frame the dirty flags are false and no frame is pending.
C37_InvalidationsDrawn ==
    /\ [](el.connected /\ needsDraw(el) => el._raf # 0 /\ el.pending > 0)
    /\ (el.connected /\ needsDraw(el)) ~> (~needsDraw(el) \/ ~el.connected)
    /\ [][(needsDraw(el) /\ ~needsDraw(el')) =>
              /\ FrameRan
              /\ el'.canvas = _draw(el).canvas
              /\ el'._vpInit = _draw(el)._vpInit
              /\ vp' = drawViewport(el, vp)]_vars
    /\ [][(FrameRan /\ el.connected) =>
              /\ ~needsDraw(el')
              /\ el'._raf = 0 /\ el'.pending = 0]_vars

\* the container was resized after an image was loaded, and the frames that
\* followed have drawn the image and left nothing dirty and nothing pending
C37_Witness ==
    /\ el.connected /\ el.events > 0
    /\ el._bitmap # NullBitmap /\ el.canvas = el._bitmap
    /\ ~needsDraw(el) /\ el._raf = 0 /\ el.pending = 0

\* C38: the browser holds at most one frame callback of the element, _raf
\* is non-zero exactly while it holds one, and it holds none once the
\* element is disconnected.
C38_OneFrame ==
    /\ el.pending <= 1
    /\ el._raf # 0 <=> el.pending = 1
    /\ ~el.connected => el.pending = 0

\* C39: the hand is active exactly when space is down or a drag goes on; a
\* drag starts only while the hand is active, and the hand stays while a
\* drag goes on, also when space is released during it.
C39_HandState ==
    /\ [](el._handActive <=> (el._spaceDown \/ el._panning))
    /\ [][(~el._panning /\ el'._panning) => el._handActive]_vars
    /\ [][(el._panning /\ el'._panning) => el'._handActive]_vars

\* space was released during a drag: the hand is kept
C39_Witness ==
    el._panning /\ ~el._spaceDown /\ el._handActive /\ el._pointerId # 0

(***************************************************************************)
(* Properties of the viewport                                              *)
(***************************************************************************)
ViewportOps ==
    {"setViewportSize", "setContentSize", "fitContain", "zoomAt", "panBy",
     "clampPan"}

\* C1: after every call of setViewportSize, setContentSize, fitContain,
\* zoomAt and panBy, starting from the constructor state,
\* minScale <= scale <= maxScale.
C1_ScaleWithinLimits ==
    call.op \in ViewportOps \ {"clampPan"} =>
        /\ RLe(vp.minScale, vp.scale)
        /\ RLe(vp.scale, vp.maxScale)

\* clampPan's post-condition on one axis
AxisPost(t, content, scale, view) ==
    LET scaled == RMul(Q(content), scale)
    IN  IF RLe(scaled, Q(view))
        THEN RAdd(t, t) = RSub(Q(view), scaled)
        ELSE RLe(RSub(Q(view), scaled), t) /\ RLe(t, Q(0))

\* the scaled content [t, t + scaled] meets the viewport [0, view]
AxisInView(t, content, scale, view) ==
    /\ RLe(t, Q(view))
    /\ RLe(Q(0), RAdd(t, RMul(Q(content), scale)))

\* C2: after every call of setViewportSize, setContentSize, fitContain,
\* zoomAt, panBy or clampPan, clampPan's post-condition holds on each axis
\* (content no larger than the viewport is centred, larger content has
\* viewSize - contentSize*scale <= translate <= 0), hence the content is
\* never panned fully out of view.
C2_ClampPanPost ==
    call.op \in ViewportOps =>
        /\ AxisPost(vp.tx, vp.cw, vp.scale, vp.vw)
        /\ AxisPost(vp.ty, vp.ch, vp.scale, vp.vh)
        /\ AxisInView(vp.tx, vp.cw, vp.scale, vp.vw)
        /\ AxisInView(vp.ty, vp.ch, vp.scale, vp.vh)

\* a pan that was stopped at the far edge of content larger than the viewport
C2_Witness ==
    /\ call.op = "panBy"
    /\ RLt(Q(vp.vw), RMul(Q(vp.cw), vp.scale))
    /\ vp.tx = RSub(Q(vp.vw), RMul(Q(vp.cw), vp.scale))
    /\ RLt(Q(vp.vh), RMul(Q(vp.ch), vp.scale))
    /\ vp.ty = Q(0)

\* the scale limits do not cut the scale a zoomAt(factor, ..) call aims at
ZoomUnclamped(s, factor) ==
    \/ ~isFinite(factor)
    \/ /\ RLe(s.minScale, RMul(s.scale, factor))
       /\ RLe(RMul(s.scale, factor), s.maxScale)

\* the step is a zoomAt call that leaves the image point under its anchor
ZoomKeepsAnchor ==
    LET a == <<call'.args[2], call'.args[3]>>
    IN  toImage(vp', a) = toImage(vp, a)

\* C7 (as stated): every zoomAt(factor, sx, sy) call whose target scale is not
\* limited by [minScale, maxScale] leaves toImage((sx, sy)) unchanged.
C7_AnchorFixedUnlessScaleClamped ==
    [][(call'.op = "zoomAt" /\ ZoomUnclamped(vp, call'.args[1]))
         => ZoomKeepsAnchor]_vars

\* the translate that keeps the anchor fixed already satisfies clampPan's
\* post-condition, so the closing clampPan of zoomAt does not move it
ZoomPanUnclamped(s, factor, sx, sy) ==
    \/ ~isFinite(factor)
    \/ LET z == zoomAnchor(s, factor, sx, sy)
       IN  /\ AxisPost(z.tx, z.cw, z.scale, z.vw)
           /\ AxisPost(z.ty, z.ch, z.scale, z.vh)

\* C7 (amended): every zoomAt(factor, sx, sy) call whose target scale is not
\* limited by [minScale, maxScale], and whose anchor-preserving translate is
\* not changed by the closing clampPan, leaves toImage((sx, sy)) unchanged.
C7_AnchorFixedWhenNothingClamps ==
    [][(/\ call'.op = "zoomAt"
        /\ ZoomUnclamped(vp, call'.args[1])
        /\ ZoomPanUnclamped(vp, call'.args[1], call'.args[2], call'.args[3]))
         => ZoomKeepsAnchor]_vars

\* a zoom in by 2 that ended strictly inside the scale limits, with content
\* larger than the viewport and the translate strictly inside its range
C7_Witness ==
    /\ call.op = "zoomAt"
    /\ call.args[1] = Q(2)
    /\ call.args[2] # Q(0)
    /\ RLt(vp.minScale, vp.scale) /\ RLt(vp.scale, vp.maxScale)
    /\ RLt(RSub(Q(vp.vw), RMul(Q(vp.cw), vp.scale)), vp.tx)
    /\ RLt(vp.tx, Q(0))
    /\ RLt(RSub(Q(vp.vh), RMul(Q(vp.ch), vp.scale)), vp.ty)
    /\ RLt(vp.ty, Q(0))

Points ==
    {<<Q(0), Q(0)>>, <<Q(1), Q(-2)>>, <<Rat(1, 2), Q(3)>>,
     <<Rat(-7, 3), Rat(5, 4)>>}

\* C8: in every reachable viewport state, toImage(toScreen(p)) = p and
\* toScreen(toImage(p)) = p for every point p, exactly.
C8_RoundTrip ==
    \A p \in Points :
        /\ toImage(vp, toScreen(vp, p)) = p
        /\ toScreen(vp, toImage(vp, p)) = p

\* a zoomed state whose scale is not 1 and whose translate is fractional
C8_Witness ==
    /\ call.op = "zoomAt"
    /\ vp.scale # Q(1)
    /\ vp.tx[2] # 1
    /\ vp.ty[1] # 0
    /\ toScreen(vp, <<Q(1), Q(-2)>>) # <<Q(1), Q(-2)>>

\* viewport and content sizes are all positive
SizesPositive(s) == s.vw > 0 /\ s.vh > 0 /\ s.cw > 0 /\ s.ch > 0

\* min(vw/cw, vh/ch)
FitScale(s) == RMin(Rat(s.vw, s.cw), Rat(s.vh, s.ch))

\* C19: after fitContain() with positive viewport and content sizes,
\* scale = minScale = min(vw/cw, vh/ch), translate =
\* (viewportSize - contentSize*scale)/2 on each axis, the scaled content fits
\* inside the viewport on both axes and touches it on at least one; a
\* following clampPan() leaves tx and ty unchanged for every viewport and
\* content size, a zero-size viewport included.
C19_FitContain ==
    call.op = "fitContain" =>
        LET w == RMul(Q(vp.cw), vp.scale)
            h == RMul(Q(vp.ch), vp.scale)
        IN  /\ SizesPositive(vp) =>
                  /\ vp.scale = vp.minScale
                  /\ vp.scale = FitScale(vp)
                  /\ RLe(w, Q(vp.vw)) /\ RLe(h, Q(vp.vh))
                  /\ w = Q(vp.vw) \/ h = Q(vp.vh)
            /\ RAdd(vp.tx, vp.tx) = RSub(Q(vp.vw), w)
            /\ RAdd(vp.ty, vp.ty) = RSub(Q(vp.vh), h)
            /\ clampPan(vp).tx = vp.tx
            /\ clampPan(vp).ty = vp.ty

\* content taller than wide was fitted into a viewport wider than tall: the
\* scale is a fraction and the content is centred with room at its sides
C19_Witness ==
    /\ call.op = "fitContain"
    /\ SizesPositive(vp)
    /\ vp.vw > vp.vh /\ vp.cw < vp.ch
    /\ vp.scale[2] # 1
    /\ RLt(Q(0), vp.tx) /\ vp.ty = Q(0)

\* C20: after every setViewportSize call and after every setContentSize call,
\* minScale equals min(vw/cw, vh/ch) when vw, vh, cw and ch are all positive,
\* and 1 otherwise.
C20_MinScaleRecomputed ==
    call.op \in {"setViewportSize", "setContentSize"} =>
        vp.minScale = IF SizesPositive(vp) THEN FitScale(vp) ELSE Q(1)

\* C21: maxScale >= minScale holds in every reachable ViewportService state,
\* and maxScale never decreases across setViewportSize and setContentSize
\* calls.
C21_MaxScaleMonotonic ==
    [][/\ RLe(vp'.minScale, vp'.maxScale)
       /\ call'.op \in {"setViewportSize", "setContentSize"}
             => RLe(vp.maxScale, vp'.maxScale)]_vars

\* the factor makes zoomAt return at once, or the clamped target scale is
\* the current scale
ZoomIsNoOp(s, factor) ==
    \/ ~isFinite(factor)
    \/ factor = Q(0)
    \/ RMax(s.minScale, RMin(s.maxScale, RMul(s.scale, factor))) = s.scale

\* C22: zoomAt(factor, sx, sy) leaves scale, tx, ty, minScale and maxScale
\* (the whole viewport state) unchanged when factor is 0, NaN or
\* +/-Infinity, and also when the target scale after clamping to
\* [minScale, maxScale] equals the current scale.
C22_ZoomNoOp ==
    [][(call'.op = "zoomAt" /\ ZoomIsNoOp(vp, call'.args[1])) => vp' = vp]_vars

\* a zoomAt by 0 off the origin in a state zoomed in above minScale, with
\* content larger than the viewport
C22_Witness ==
    /\ call.op = "zoomAt"
    /\ call.args[1] = Q(0) /\ call.args[2] # Q(0)
    /\ RLt(vp.minScale, vp.scale)
    /\ RLt(Q(vp.vw), RMul(Q(vp.cw), vp.scale))

\* the translate panBy must leave on one axis
PannedAxis(t, delta, content, scale, view) ==
    LET scaled == RMul(Q(content), scale)
        lo     == RSub(Q(view), scaled)
    IN  IF RLe(scaled, Q(view)) THEN Half(lo)
        ELSE RMax(lo, RMin(Q(0), RAdd(t, delta)))

\* C27: panBy(0,0) changes nothing; for any other finite panBy(dx,dy), on an
\* axis where contentSize*scale <= viewportSize the translate afterwards is
\* the centred value whatever the delta, and on an axis where the content is
\* larger it is (old translate + delta) clamped into
\* [viewportSize - contentSize*scale, 0]; scale, minScale and maxScale are
\* unchanged.
C27_PanBy ==
    [][call'.op = "panBy" =>
          LET dx == call'.args[1]
              dy == call'.args[2]
          IN  IF dx = Q(0) /\ dy = Q(0) THEN vp' = vp
              ELSE /\ vp'.tx = PannedAxis(vp.tx, dx, vp.cw, vp.scale, vp.vw)
                   /\ vp'.ty = PannedAxis(vp.ty, dy, vp.ch, vp.scale, vp.vh)
                   /\ vp'.scale = vp.scale
                   /\ vp'.minScale = vp.minScale
                   /\ vp'.maxScale = vp.maxScale]_vars

\* a pan with a delta on both axes: x holds content that fits and stays
\* centred, y holds larger content and ends strictly inside its range
C27_Witness ==
    /\ call.op = "panBy"
    /\ call.args[1] # Q(0) /\ call.args[2] # Q(0)
    /\ RLe(RMul(Q(vp.cw), vp.scale), Q(vp.vw))
    /\ RLt(RSub(Q(vp.vh), RMul(Q(vp.ch), vp.scale)), vp.ty)
    /\ RLt(vp.ty, Q(0))

\* C28: setContentSize(w,h) never lowers scale: afterwards scale =
\* max(previous scale, new minScale), content size is (max(1,w), max(1,h))
\* truncated to integers, and maxScale >= 8 * minScale.
C28_SetContentSize ==
    [][call'.op = "setContentSize" =>
          /\ vp'.scale = RMax(vp.scale, vp'.minScale)
          /\ RLe(vp.scale, vp'.scale)
          /\ vp'.cw = IMax(1, ToInt32(call'.args[1]))
          /\ vp'.ch = IMax(1, ToInt32(call'.args[2]))
          /\ vp'.cw >= 1 /\ vp'.ch >= 1
          /\ RLe(RMul(Q(8), vp'.minScale), vp'.maxScale)]_vars

\* setContentSize(1/2, 0) gave 1 x 1 content, with the scale left above the
\* new minScale
C28_Witness ==
    /\ call.op = "setContentSize"
    /\ call.args = <<Rat(1, 2), Q(0)>>
    /\ vp.cw = 1 /\ vp.ch = 1
    /\ RLt(vp.minScale, vp.scale)

(***************************************************************************)
(* Properties of the EXIF orientation parser                               *)
(***************************************************************************)
\* C12: for every buffer made of the start-of-image marker, zero or more
\* non-APP1 segments and an APP1 segment with the 'Exif\0\0' signature and a
\* well-formed TIFF header ('II' or 'MM', magic 42, in-bounds directory
\* offset) whose directory has an orientation entry of type SHORT, count 1
\* and value V in 1..8, _readExifOrientation returns V.
C12_WellFormedYieldsValue ==
    (parse.parsed /\ parse.made.kind = "wellFormed")
        => parse.result = parse.made.value

\* a little-endian block behind two other segments, with a gap in front of
\* the directory and an entry in front of the orientation entry, gave 6
C12_Witness ==
    /\ parse.parsed
    /\ parse.made.kind = "wellFormed"
    /\ parse.made.before >= 2 /\ parse.made.little /\ parse.made.gap = 2
    /\ parse.made.skip >= 1 /\ parse.made.value = 6
    /\ parse.result = 6

\* the offset just behind the orientation entry of the first Exif block
OrientationEnd(m) ==
    2 + Len(Before(m.before)) + 4 + 6 + 8 + m.gap + 2 + 12 * (m.skip + 1)

\* C13: for every byte buffer of any length, empty and 1-byte buffers and a
\* valid JPEG cut at any offset included, _readExifOrientation never throws;
\* a buffer cut in front of the end of the orientation entry gives not-found.
C13_NeverThrows ==
    parse.parsed =>
        /\ parse.result # RangeError
        /\ (/\ parse.made.kind = "truncated"
            /\ parse.made.cut < OrientationEnd(parse.made))
                => parse.result = NotFound

\* C14: for every buffer in which the orientation entry of the first Exif
\* block has a type other than SHORT, a count other than 1 or a value outside
\* 1..8, _readExifOrientation yields not-found, whatever else the buffer
\* holds.
C14_FailsClosed ==
    (parse.parsed /\ parse.made.kind = "malformed")
        => parse.result = NotFound

\* the buffer does not begin with the start-of-image marker
NoStartOfImage(view) == Len(view) < 2 \/ SubSeq(view, 1, 2) # U16(SOI, FALSE)

\* C31: _readExifOrientation considers only the segments in front of the
\* first start-of-scan or end-of-image marker: non-APP1 segments in front of
\* it are skipped by their declared length (the Exif block behind them is
\* found), a valid Exif block behind the marker is not found, and a buffer
\* whose first two bytes are not 0xFFD8 always yields not-found.
C31_StopsAtScan ==
    parse.parsed =>
        /\ (parse.made.kind = "wellFormed" /\ parse.made.before >= 1)
              => parse.result = parse.made.value
        /\ parse.made.damage \in {"sosFirst", "eoiFirst"}
              => parse.result = NotFound
        /\ NoStartOfImage(parse.view) => parse.result = NotFound

\* C32: for every finite byte buffer _readExifOrientation terminates: each
\* iteration of the segment-scan loop either exits or advances the offset by
\* at least 4 bytes, and the directory scan visits at most the declared number
\* of entries, each of them inside the buffer.
C32_Terminates ==
    /\ <>(parse.scan.pc = "done")
    /\ [][/\ (parse.scan.pc \in {"segment", "entry"}
                 /\ parse'.scan.pc = "segment")
             => parse'.scan.offset >= parse.scan.offset + 4
          /\ parse'.scan.pc = "entry" => parse'.scan.i <= parse'.scan.entries
          /\ (parse.scan.pc = "entry"
                 /\ (parse'.scan.i > parse.scan.i
                        \/ parse'.scan.pc = "done"))
             => /\ parse.scan.i < parse.scan.entries
                /\ parse.scan.dirOffset + 12 * parse.scan.i + 12
                      <= Len(parse.view)]_vars

\* a call returned an orientation after three iterations of the segment loop
\* and a directory entry in front of the orientation entry
C32_Witness ==
    /\ parse.scan.pc = "done"
    /\ parse.scan.iterations >= 3
    /\ parse.scan.i >= 1 /\ parse.scan.i < parse.scan.entries
    /\ parse.scan.result \in 1 .. 8

(***************************************************************************)
(* Properties of the element                                               *)
(***************************************************************************)
\* the content is shown at the fit: scale = minScale, centred on both axes
Refitted(s) ==
    /\ s.scale = s.minScale
    /\ RAdd(s.tx, s.tx) = RSub(Q(s.vw), RMul(Q(s.cw), s.scale))
    /\ RAdd(s.ty, s.ty) = RSub(Q(s.vh), RMul(Q(s.ch), s.scale))

\* run h of a load handler succeeded with no other run overlapping it, and
\* the bitmap it displayed is still the element's bitmap
Displays(e, h) ==
    /\ h \in DOMAIN e.handlers
    /\ e.handlers[h].pc = "done" /\ ~e.handlers[h].overlapped
    /\ e._bitmap # NullBitmap /\ e._bitmap.by = h

\* C29: whenever a successful load replaces the displayed bitmap, on the
\* first load and on every later one, a frame is scheduled (once Lit's update
\* has run, a frame is pending as long as the new bitmap is not on the canvas
\* of a container that has a size) and the _draw that first draws the new
\* bitmap re-fits the viewport: scale = minScale and the content is centred.
C29_LoadRefits ==
    [][\A h \in 1 .. MaxHandlers :
          Displays(el', h) =>
             /\ (/\ el'.canvas # el'._bitmap
                 /\ ~el'.isUpdatePending
                 /\ el'.stack[1] > 0 /\ el'.stack[2] > 0) => el'._raf # 0
             /\ (el.canvas # el'._bitmap /\ el'.canvas = el'._bitmap)
                    => Refitted(vp')]_vars

\* the toast _showToast appended last
LastToast(e) == e._toasts[Len(e._toasts)]

\* C30: when a load started by _onChooseSample or _onFileChosen fails and no
\* other load overlaps it, _bitmap and _hasImage afterwards equal their values
\* from before the handler ran and a toast with the error message is shown
\* (it is appended to _toasts and the update that renders it is pending);
\* whether the load succeeds or fails, _loading is false once it completed.
C30_FailedLoadRestores ==
    [][\A h \in DOMAIN el.handlers :
          el.handlers[h].pc = "awaiting" /\ el'.handlers[h].pc # "awaiting" =>
             /\ el'.handlers[h].pc \in {"done", "failed"}
             /\ ~el'._loading
             /\ (el'.handlers[h].pc = "failed" /\ ~el.handlers[h].overlapped)
                   => /\ el'._bitmap = el.handlers[h].prevBitmap
                      /\ el'._hasImage = el.handlers[h].prevHasImage
                      /\ el'._hasImage = (el'._bitmap # NullBitmap)
                      /\ Len(el'._toasts) = Len(el._toasts) + 1
                      /\ LastToast(el').message[1] # ""
                      /\ el'.handlers[h].message # ""
                            => LastToast(el').message[1] =
                                  el'.handlers[h].message
                      /\ el'.isUpdatePending]_vars

\* a load failed, with no other load during it, while an earlier load's
\* bitmap was displayed: the bitmap is still displayed, the toast carries the
\* error's message and _loading is false
C30_Witness ==
    \E h \in DOMAIN el.handlers :
        /\ el.handlers[h].pc = "failed" /\ ~el.handlers[h].overlapped
        /\ el.handlers[h].prevBitmap # NullBitmap
        /\ el._bitmap = el.handlers[h].prevBitmap /\ el._hasImage
        /\ ~el._loading
        /\ el._toasts # <<>>
        /\ LastToast(el).message[1] = "Unsupported file type."
        /\ el.handlers[h].message = "Unsupported file type."

\* a finite number above zero
Positive(q) == isFinite(q) /\ q[1] > 0

\* C40: scale, minScale and maxScale are finite and strictly positive in
\* every state, whatever sizes and factors the calls were given, and toImage
\* of a finite point is finite.
C40_ScalesPositive ==
    /\ Positive(vp.scale) /\ Positive(vp.minScale) /\ Positive(vp.maxScale)
    /\ \A p \in Anchors :
          isFinite(toImage(vp, p)[1]) /\ isFinite(toImage(vp, p)[2])

\* zoomAt with factor -1 as third call, after the two size setters made
\* minScale less than the scale 1: it brought the scale down to minScale
C40_Witness ==
    /\ call.op = "zoomAt" /\ call.n = 3 /\ call.args[1] = Q(-1)
    /\ RLt(vp.minScale, Q(1)) /\ vp.scale = vp.minScale

====
